---- MODULE Spec2Model ----
(***************************************************************************)
(* Model of the Luminode real-time server: the category chain and the      *)
(* per-category channel ordering kept by receiver/category_receiver.py and *)
(* receiver/channel_receiver.py over the Beanie document store, and the    *)
(* connection handshake, sessions, rooms and message broadcast of app.py,  *)
(* receiver/room_receiver.py, receiver/message_receiver.py and             *)
(* sender/message_sender.py over the Socket.IO server.                     *)
(*                                                                         *)
(* A Python string is a sequence of tokens (<<"category", ":", "2">> is    *)
(* "category:2"); None and the empty string are both the empty sequence,   *)
(* which is sound here because the empty string is not among the inputs.   *)
(* A document id (ObjectId) is a natural number; str(id) is its numeral.   *)
(***************************************************************************)
EXTENDS Integers, Sequences, FiniteSets, TLC

\* ---------------------------------------------------------------- bounds
\* categories a run of the chain specifications may create
MaxCats == 3
\* categories a run of the channel-membership specification may create
MaxChanCats == 2
\* channels a run may create
MaxChans == 2
\* longest ordered_channel_ids list a reorder_category_channels call carries
MaxOrderLen == 2
\* categories a run of the session specification may create
MaxSessionCats == 1
\* channels a run of the session specification may create
MaxRoomChans == 1
\* handler tasks the event bus holds at once
MaxPending == 1
\* messages a run may store
MaxMessages == 1
\* administrator names and e-mail addresses the setup API is called with
MaxAdmins == 2

VARIABLES
  cats,      \* Category collection: sequence of documents, _id = position
  chans,     \* Channel collection: sequence of documents, _id = ChanBase + position
  sessions,  \* sio session table: connection id -> session
  tasks,     \* handler invocations suspended at a store access (await)
  last,      \* history: the command under observation, with its response
  pre,       \* history: the store as it was when that command was issued
  users,     \* User collection: sequence of documents, _id = position
  auths,     \* Auth collection: sequence of documents, _id = position
  conns,     \* Socket.IO connections: connection id -> "connecting", "open", "closed"
  rooms,     \* Socket.IO room membership: set of <<room name, connection id>>
  pending,   \* event bus: the handler tasks started by a publish and not yet run
  joined,    \* history: the <<room name, connection id>> a join_room has succeeded for
  messages,  \* Message collection: sequence of documents, _id = position
  progress,  \* SetupProgress collection: sequence of at most one document
  admins,    \* Admin collection: set of documents
  server     \* whether the Server collection holds a non-deleted server

\* the state of the setup API
setup_vars == <<progress, admins, server>>

\* what the category and channel commands leave alone
session_vars == <<users, auths, conns, rooms, pending, joined, messages, setup_vars>>

vars ==
  <<cats, chans, sessions, tasks, last, pre, users, auths, conns, rooms, pending, joined,
    messages, progress, admins, server>>

\* ---------------------------------------------------------------- strings
Null == <<>>

Lit(tok) == <<tok>>

\* first _id of the Channel collection: the two collections never share an id
ChanBase == MaxCats + MaxChanCats

\* the ids a well-formed ObjectId string can denote (0 is never allocated)
OidSpace == 0..(ChanBase + MaxChans)

\* the numeral of every id
OidStr == [i \in OidSpace |-> ToString(i)]

\* str(document.id)
Str(id) == <<OidStr[id]>>

\* f"category:{str(id)}" / f"channel:{str(id)}"
Fmt(type, id) == <<type, ":">> \o Str(id)

\* position of the first ":" of s, 0 when there is none
ColonPos(s) ==
  IF \E k \in 1..Len(s) : s[k] = ":"
  THEN CHOOSE k \in 1..Len(s) : s[k] = ":" /\ \A j \in 1..(k - 1) : s[j] # ":"
  ELSE 0

\* utils.extract_elements_from_id.extract_elements_from_id_safe:
\* "<type>:<rawId>" -> (type, rawId); (None, None) when there is no ":"
extract_elements_from_id_safe(s) ==
  LET k == ColonPos(s)
  IN IF k = 0 THEN <<Null, Null>>
     ELSE <<SubSeq(s, 1, k - 1), SubSeq(s, k + 1, Len(s))>>

\* ---------------------------------------------------------------- store
\* ObjectId(s): the id a string denotes, -1 when it is not a valid ObjectId
ParseOid(s) ==
  IF Len(s) = 1 /\ \E i \in OidSpace : OidStr[i] = s[1]
  THEN CHOOSE i \in OidSpace : OidStr[i] = s[1]
  ELSE -1

\* model.category_model.Category as constructed by create_category
Category(next_category_id) ==
  [next_category_id |-> next_category_id, channels_order |-> <<>>, is_deleted |-> FALSE]

\* model.channel_model.Channel as constructed by create_channel
Channel(category_id) == [category_id |-> category_id, is_deleted |-> FALSE]

NoCat == Category(Null)
NoChan == Channel(Null)

\* Category.get(s): raises on a string that is no ObjectId, else the document or None
CategoryGet(cs, s) ==
  LET i == ParseOid(s)
  IN IF i = -1 THEN [st |-> "raise", id |-> 0, doc |-> NoCat]
     ELSE IF i \in 1..Len(cs) THEN [st |-> "ok", id |-> i, doc |-> cs[i]]
     ELSE [st |-> "none", id |-> 0, doc |-> NoCat]

\* Channel.get(s)
ChannelGet(chs, s) ==
  LET i == ParseOid(s)
  IN IF i = -1 THEN [st |-> "raise", id |-> 0, doc |-> NoChan]
     ELSE IF (i - ChanBase) \in 1..Len(chs)
          THEN [st |-> "ok", id |-> i - ChanBase, doc |-> chs[i - ChanBase]]
          ELSE [st |-> "none", id |-> 0, doc |-> NoChan]

\* Category.find(Category.is_deleted == False).to_list(): id -> document copy
CategoryFindLive(cs) ==
  [i \in {j \in 1..Len(cs) : ~cs[j].is_deleted} |-> cs[i]]

\* document.save(): the whole document replaces the stored one
SaveCat(cs, id, doc) == [cs EXCEPT ![id] = doc]
SaveChan(chs, id, doc) == [chs EXCEPT ![id] = doc]

\* ---------------------------------------------------------------- responses
\* BaseResponse(...).model_dump() returned to the caller
Resp(success, error) == [kind |-> "return", success |-> success, error |-> error]
Ok == Resp(TRUE, "")
Fail(error) == Resp(FALSE, error)
\* the handler ended with an exception instead of a response
Raised == [kind |-> "raise", success |-> FALSE, error |-> "exception"]
NoResp == [kind |-> "none", success |-> FALSE, error |-> ""]

Min(S) == CHOOSE x \in S : \A y \in S : x <= y

\* ---------------------------------------------------------------- reorder_categories
\* the handler's frame when the command arrives
ReorderBegin(target_category_id, prev_category_id) ==
  [op |-> "reorder_categories", pc |-> "get_target",
   target_category_id |-> target_category_id, prev_category_id |-> prev_category_id,
   target_id |-> 0, target |-> NoCat, categories |-> <<>>,
   prev_of_target |-> 0, new_prev |-> 0, resp |-> NoResp]

Done(f, resp) == [f EXCEPT !.pc = "done", !.resp = resp]

\* lines 124-129: parse the target id and load the target
ReorderGetTarget(f, cs) ==
  LET parts == extract_elements_from_id_safe(f.target_category_id)
      t_type == parts[1]
      t_value == parts[2]
  IN IF t_type # Lit("category") \/ t_value = Null
     THEN Done(f, Fail("Invalid target_category_id"))
     ELSE LET g == CategoryGet(cs, t_value)
          IN IF g.st = "raise" THEN Done(f, Raised)
             ELSE IF g.st = "none" \/ g.doc.is_deleted
                  THEN Done(f, Fail("Category not found"))
                  ELSE [f EXCEPT !.target_id = g.id, !.target = g.doc, !.pc = "find"]

\* ReorderSpliceIn without line 160: the target keeps its old next pointer
ReorderSpliceIn_KeepsTargetNext(f) ==
  IF f.prev_category_id = Null
  THEN [f EXCEPT !.pc = "save_target"]
  ELSE LET parts == extract_elements_from_id_safe(f.prev_category_id)
           hits == {i \in DOMAIN f.categories : Str(i) = parts[2]}
       IN IF parts[1] # Lit("category") \/ parts[2] = Null \/ hits = {}
          THEN Done(f, Fail("Invalid prev_category_id"))
          ELSE LET np == Min(hits)
               IN IF f.categories[np].is_deleted \/ Str(np) = Str(f.target_id)
                  THEN Done(f, Fail("Invalid prev_category_id"))
                  ELSE [f EXCEPT
                          !.new_prev = np,
                          !.categories[np].next_category_id = Fmt("category", f.target_id),
                          !.pc = "save_new_prev"]

\* lines 148-161: validate prev and splice target in after it, on the local copies
ReorderSpliceIn(f) ==
  IF f.prev_category_id = Null
  THEN [f EXCEPT !.pc = "save_target"]
  ELSE LET parts == extract_elements_from_id_safe(f.prev_category_id)
           p_type == parts[1]
           p_value == parts[2]
           hits == {i \in DOMAIN f.categories : Str(i) = p_value}
       IN IF p_type # Lit("category") \/ p_value = Null
          THEN Done(f, Fail("Invalid prev_category_id"))
          ELSE IF hits = {} THEN Done(f, Fail("Invalid prev_category_id"))
          ELSE LET np == Min(hits)
               IN IF f.categories[np].is_deleted \/ Str(np) = Str(f.target_id)
                  THEN Done(f, Fail("Invalid prev_category_id"))
                  ELSE [f EXCEPT
                          !.new_prev = np,
                          !.target.next_category_id = f.categories[np].next_category_id,
                          !.categories[np].next_category_id = Fmt("category", f.target_id),
                          !.pc = "save_new_prev"]

\* lines 131-145: load the live categories, find the predecessor, unlink locally
ReorderFind(f, cs) ==
  LET categories == CategoryFindLive(cs)
      formatted_target == Fmt("category", f.target_id)
      preds == {i \in DOMAIN categories : categories[i].next_category_id = formatted_target}
  IN IF preds # {}
     THEN LET p == Min(preds)
          IN [f EXCEPT
                !.categories = [categories EXCEPT ![p].next_category_id = f.target.next_category_id],
                !.prev_of_target = p,
                !.pc = "save_prev_of_target"]
     ELSE ReorderSpliceIn([f EXCEPT !.categories = categories])

\* one step of reorder_categories: from one store access to the next
ReorderStep(f, db) ==
  CASE f.pc = "get_target" ->
         [f |-> ReorderGetTarget(f, db.cats), db |-> db]
    [] f.pc = "find" ->
         [f |-> ReorderFind(f, db.cats), db |-> db]
    [] f.pc = "save_prev_of_target" ->   \* line 146
         [f |-> ReorderSpliceIn(f),
          db |-> [db EXCEPT !.cats = SaveCat(db.cats, f.prev_of_target, f.categories[f.prev_of_target])]]
    [] f.pc = "save_new_prev" ->         \* line 162
         [f |-> [f EXCEPT !.pc = "save_target"],
          db |-> [db EXCEPT !.cats = SaveCat(db.cats, f.new_prev, f.categories[f.new_prev])]]
    [] f.pc = "save_target" ->           \* lines 164-165
         [f |-> Done(f, Ok),
          db |-> [db EXCEPT !.cats = SaveCat(db.cats, f.target_id, f.target)]]

\* ---------------------------------------------------------------- category commands
\* create_category, lines 25-40
create_category(db, schema_ok, next_category_id) ==
  IF ~schema_ok THEN [db |-> db, resp |-> Fail("validation")]
  ELSE [db |-> [db EXCEPT !.cats = Append(db.cats, Category(next_category_id))], resp |-> Ok]

\* update_category, lines 50-75
update_category(db, id, next_category_id) ==
  LET parts == extract_elements_from_id_safe(id)
      type_part == parts[1]
      value_part == parts[2]
  IN IF type_part # Lit("category") \/ value_part = Null
     THEN [db |-> db, resp |-> Fail("Invalid category id")]
     ELSE LET g == CategoryGet(db.cats, value_part)
          IN IF g.st = "raise" THEN [db |-> db, resp |-> Raised]
             ELSE IF g.st = "none" \/ g.doc.is_deleted
                  THEN [db |-> db, resp |-> Fail("Category not found")]
                  ELSE LET category == IF next_category_id # Null
                                       THEN [g.doc EXCEPT !.next_category_id = next_category_id]
                                       ELSE g.doc
                       IN [db |-> [db EXCEPT !.cats = SaveCat(db.cats, g.id, category)], resp |-> Ok]

RECURSIVE OrphanChannels(_, _, _)
\* delete_category, lines 98-105: clear the category reference of the member channels
OrphanChannels(chs, order, k) ==
  IF k > Len(order) THEN [chans |-> chs, raised |-> FALSE]
  ELSE LET g == ChannelGet(chs, order[k])
       IN IF g.st = "raise" THEN [chans |-> chs, raised |-> TRUE]
          ELSE IF g.st = "ok" /\ ~g.doc.is_deleted
               THEN OrphanChannels(SaveChan(chs, g.id, [g.doc EXCEPT !.category_id = Null]), order, k + 1)
               ELSE OrphanChannels(chs, order, k + 1)

\* delete_category, lines 82-107
delete_category(db, id) ==
  LET g == CategoryGet(db.cats, id)
  IN IF g.st = "raise" THEN [db |-> db, resp |-> Raised]
     ELSE IF g.st = "none" \/ g.doc.is_deleted
          THEN [db |-> db, resp |-> Fail("Category not found")]
          ELSE LET category == [g.doc EXCEPT !.is_deleted = TRUE]
                   cs2 == SaveCat(db.cats, g.id, category)
                   o == OrphanChannels(db.chans, category.channels_order, 1)
               IN [db |-> [cats |-> cs2, chans |-> o.chans],
                   resp |-> IF o.raised THEN Raised ELSE Ok]

\* ---------------------------------------------------------------- event bus
\* what ee.emit(topic, payload) is called with
Event(topic, payload) == [topic |-> topic, payload |-> payload]

\* every topic has the handler of "message_creation"
Handlers_AllTopics(topic) == <<"message_creation_event">>

\* the handlers registered with @ee.on: sender/message_sender.py line 14 is
\* the only registration among the modules app.py imports
Handlers(topic) ==
  IF topic = "message_creation" THEN <<"message_creation_event">> ELSE <<>>

\* the tasks a publish starts, one for each handler of the topic; raises says
\* whether the handler will end with an exception
HandlerTasks(e, raises) ==
  [k \in 1..Len(Handlers(e.topic)) |->
     [handler |-> Handlers(e.topic)[k], payload |-> e.payload, raises |-> raises]]

\* a bus that runs the handlers inside publish: the tasks are not queued and
\* the exception of a handler is the publisher's
publish_Inline(q, resp, events, raises) ==
  [pending |-> q,
   resp |-> IF events # <<>> /\ raises /\ HandlerTasks(events[1], raises) # <<>>
            THEN Raised ELSE resp]

\* ee.emit as called by a command that goes on to answer resp: the handlers
\* of the topic are started as tasks of their own and the command continues
publish(q, resp, events, raises) ==
  [pending |-> q \o (IF events = <<>> THEN <<>> ELSE HandlerTasks(events[1], raises)),
   resp |-> resp]

\* ---------------------------------------------------------------- channel commands
\* utils.extract_elements_from_id.extract_elements_from_id: as the safe one,
\* but a string with no ":" raises
extract_elements_from_id(s) ==
  IF ColonPos(s) = 0 THEN [raised |-> TRUE, parts |-> <<Null, Null>>]
  ELSE [raised |-> FALSE, parts |-> extract_elements_from_id_safe(s)]

\* str(channel.id) of the channel stored at position j
ChanOid(j) == ChanBase + j

\* what a channel command hands back: the store, its response and the
\* events it published
Answer(db, resp, published) == [db |-> db, resp |-> resp, published |-> published]

\* create_channel, lines 20-52: "channel_created" is published (line 39)
\* before the insert (line 40); fault names the store call that fails
create_channel(db, schema_ok, raw_category_id, fault) ==
  LET parts == extract_elements_from_id_safe(raw_category_id)
      created == <<Event("channel_created", Null)>>
  IN IF ~schema_ok THEN Answer(db, Fail("validation"), <<>>)
     ELSE IF raw_category_id # Null /\ (parts[1] # Lit("category") \/ parts[2] = Null)
     THEN Answer(db, Fail("Invalid category_id"), <<>>)
     ELSE IF fault = "insert" THEN Answer(db, Raised, created)
     ELSE LET chs2 == Append(db.chans, Channel(raw_category_id))
              formatted == Fmt("channel", ChanOid(Len(chs2)))
              g == CategoryGet(db.cats, parts[2])
          IN IF raw_category_id = Null THEN Answer([db EXCEPT !.chans = chs2], Ok, created)
             ELSE IF g.st = "raise" THEN Answer([db EXCEPT !.chans = chs2], Raised, created)
             ELSE IF g.st = "ok" /\ ~g.doc.is_deleted
                  THEN Answer([cats |-> SaveCat(db.cats, g.id,
                                  [g.doc EXCEPT !.channels_order = Append(@, formatted)]),
                               chans |-> chs2],
                              Ok, created)
                  ELSE Answer([db EXCEPT !.chans = chs2], Ok, created)

\* sio.get_session(sid) and the check of lines 115-120
Authenticated(ss, sid) == sid \in DOMAIN ss /\ ss[sid].authenticated

\* update_channel, lines 60-107: name and description are the only fields it
\* writes, so the stored document keeps every field of this model
update_channel(db, ss, sid, schema_ok, id, fault) ==
  LET e == extract_elements_from_id(id)
      id_type == e.parts[1]
      id_value == e.parts[2]
      g == ChannelGet(db.chans, id_value)
  IN IF ~Authenticated(ss, sid) THEN Answer(db, Fail("Authentication required"), <<>>)
     ELSE IF ss[sid].user_id = Null THEN Answer(db, Fail("User ID not found"), <<>>)
     ELSE IF ~schema_ok THEN Answer(db, Fail("validation"), <<>>)
     ELSE IF e.raised THEN Answer(db, Fail("exception"), <<>>)
     ELSE IF id_type = Null \/ id_value = Null \/ id_type # Lit("channel")
     THEN Answer(db, Fail("Invalid id format"), <<>>)
     ELSE IF g.st = "raise" THEN Answer(db, Fail("exception"), <<>>)
     ELSE IF g.st = "none" THEN Answer(db, Fail("Channel not found"), <<>>)
     ELSE IF fault = "save" THEN Answer(db, Fail("exception"), <<>>)
     ELSE Answer([db EXCEPT !.chans = SaveChan(db.chans, g.id, g.doc)], Ok,
                 <<Event("channel_updated", Null)>>)

\* delete_channel, lines 112-158
delete_channel(db, ss, sid, schema_ok, id, fault) ==
  LET e == extract_elements_from_id(id)
      id_type == e.parts[1]
      id_value == e.parts[2]
      g == ChannelGet(db.chans, id_value)
  IN IF ~Authenticated(ss, sid) THEN Answer(db, Fail("Authentication required"), <<>>)
     ELSE IF ss[sid].user_id = Null THEN Answer(db, Fail("User ID not found"), <<>>)
     ELSE IF ~schema_ok THEN Answer(db, Fail("validation"), <<>>)
     ELSE IF e.raised THEN Answer(db, Fail("exception"), <<>>)
     ELSE IF id_type = Null \/ id_value = Null \/ id_type # Lit("channel")
     THEN Answer(db, Fail("Invalid id format"), <<>>)
     ELSE IF g.st = "raise" THEN Answer(db, Fail("exception"), <<>>)
     ELSE IF g.st = "none" THEN Answer(db, Fail("Channel not found"), <<>>)
     ELSE IF g.doc.is_deleted THEN Answer(db, Fail("Channel already deleted"), <<>>)
     ELSE IF fault = "save" THEN Answer(db, Fail("exception"), <<>>)
     ELSE Answer([db EXCEPT !.chans = SaveChan(db.chans, g.id, [g.doc EXCEPT !.is_deleted = TRUE])],
                 Ok, <<Event("channel_deleted", Null)>>)

RECURSIVE CheckOrder(_, _, _, _)
\* reorder_category_channels, lines 188-195: the first listed id that is not a
\* live channel of the category ends the loop
CheckOrder(chs, formatted_category, ids, k) ==
  IF k > Len(ids) THEN "ok"
  ELSE LET parts == extract_elements_from_id_safe(ids[k])
           g == ChannelGet(chs, parts[2])
       IN IF parts[1] # Lit("channel") \/ parts[2] = Null THEN "invalid"
          ELSE IF g.st = "raise" THEN "raise"
          ELSE IF g.st = "none" \/ g.doc.is_deleted \/ g.doc.category_id # formatted_category
               THEN "invalid"
               ELSE CheckOrder(chs, formatted_category, ids, k + 1)

\* len(set(xs))
Distinct(xs) == Cardinality({xs[k] : k \in 1..Len(xs)})

\* reorder_category_channels without the duplicate check of lines 197-199
reorder_category_channels_NoDuplicateCheck(db, category_id, ordered_channel_ids) ==
  LET parts == extract_elements_from_id_safe(category_id)
      g == CategoryGet(db.cats, parts[2])
      chk == CheckOrder(db.chans, Fmt("category", g.id), ordered_channel_ids, 1)
  IN IF parts[1] # Lit("category") \/ parts[2] = Null
     THEN [db |-> db, resp |-> Fail("Invalid category_id")]
     ELSE IF g.st = "raise" THEN [db |-> db, resp |-> Raised]
     ELSE IF g.st = "none" \/ g.doc.is_deleted THEN [db |-> db, resp |-> Fail("Category not found")]
     ELSE IF chk = "raise" THEN [db |-> db, resp |-> Raised]
     ELSE IF chk = "invalid" THEN [db |-> db, resp |-> Fail("Invalid channel in order")]
     ELSE [db |-> [db EXCEPT !.cats = SaveCat(db.cats, g.id,
                       [g.doc EXCEPT !.channels_order = ordered_channel_ids])],
           resp |-> Ok]

\* reorder_category_channels, lines 172-205
reorder_category_channels(db, category_id, ordered_channel_ids) ==
  LET parts == extract_elements_from_id_safe(category_id)
      g == CategoryGet(db.cats, parts[2])
      chk == CheckOrder(db.chans, Fmt("category", g.id), ordered_channel_ids, 1)
  IN IF parts[1] # Lit("category") \/ parts[2] = Null
     THEN [db |-> db, resp |-> Fail("Invalid category_id")]
     ELSE IF g.st = "raise" THEN [db |-> db, resp |-> Raised]
     ELSE IF g.st = "none" \/ g.doc.is_deleted THEN [db |-> db, resp |-> Fail("Category not found")]
     ELSE IF chk = "raise" THEN [db |-> db, resp |-> Raised]
     ELSE IF chk = "invalid" THEN [db |-> db, resp |-> Fail("Invalid channel in order")]
     ELSE IF Len(ordered_channel_ids) # Distinct(ordered_channel_ids)
     THEN [db |-> db, resp |-> Fail("Duplicate channel ids")]
     ELSE [db |-> [db EXCEPT !.cats = SaveCat(db.cats, g.id,
                       [g.doc EXCEPT !.channels_order = ordered_channel_ids])],
           resp |-> Ok]

\* ---------------------------------------------------------------- add_channel_to_category
\* [cid for cid in xs if cid != x]
Without(xs, x) == SelectSeq(xs, LAMBDA cid : cid # x)

Contains(xs, x) == \E k \in 1..Len(xs) : xs[k] = x

AddChannelBegin(category_id, channel_id) ==
  [op |-> "add_channel_to_category", pc |-> "get_category",
   category_id |-> category_id, channel_id |-> channel_id,
   cat_id |-> 0, category |-> NoCat, chan_id |-> 0, channel |-> NoChan,
   old_id |-> 0, old_cat |-> NoCat, resp |-> NoResp]

\* lines 220-225
AddChannelGetCategory(f, cs) ==
  LET parts == extract_elements_from_id_safe(f.category_id)
      g == CategoryGet(cs, parts[2])
  IN IF parts[1] # Lit("category") \/ parts[2] = Null THEN Done(f, Fail("Invalid category_id"))
     ELSE IF g.st = "raise" THEN Done(f, Raised)
     ELSE IF g.st = "none" \/ g.doc.is_deleted THEN Done(f, Fail("Category not found"))
     ELSE [f EXCEPT !.cat_id = g.id, !.category = g.doc, !.pc = "get_channel"]

\* lines 250-256: append to the target category's local copy, without duplicates
AddChannelAppend(f) ==
  LET formatted_channel == Fmt("channel", ChanOid(f.chan_id))
  IN [f EXCEPT !.category.channels_order = Append(Without(@, formatted_channel), formatted_channel),
               !.pc = "save_category"]

\* AddChannelGetChannel without the is_deleted test of line 231
AddChannelGetChannel_IgnoresDeleted(f, chs) ==
  LET parts == extract_elements_from_id_safe(f.channel_id)
      g == ChannelGet(chs, parts[2])
      old == extract_elements_from_id_safe(g.doc.category_id)
      f2 == [f EXCEPT !.chan_id = g.id, !.channel = g.doc]
  IN IF parts[1] # Lit("channel") \/ parts[2] = Null THEN Done(f, Fail("Invalid channel_id"))
     ELSE IF g.st = "raise" THEN Done(f, Raised)
     ELSE IF g.st = "none" THEN Done(f, Fail("Channel not found"))
     ELSE IF g.doc.category_id = Fmt("category", f.cat_id)
     THEN Done(f, Fail("Channel is already in this category"))
     ELSE IF g.doc.category_id # Null /\ old[1] = Lit("category") /\ old[2] # Null
     THEN [f2 EXCEPT !.pc = "get_old_cat"]
     ELSE AddChannelAppend(f2)

\* lines 227-241
AddChannelGetChannel(f, chs) ==
  LET parts == extract_elements_from_id_safe(f.channel_id)
      g == ChannelGet(chs, parts[2])
      old == extract_elements_from_id_safe(g.doc.category_id)
      f2 == [f EXCEPT !.chan_id = g.id, !.channel = g.doc]
  IN IF parts[1] # Lit("channel") \/ parts[2] = Null THEN Done(f, Fail("Invalid channel_id"))
     ELSE IF g.st = "raise" THEN Done(f, Raised)
     ELSE IF g.st = "none" \/ g.doc.is_deleted THEN Done(f, Fail("Channel not found"))
     ELSE IF g.doc.category_id = Fmt("category", f.cat_id)
     THEN Done(f, Fail("Channel is already in this category"))
     ELSE IF g.doc.category_id # Null /\ old[1] = Lit("category") /\ old[2] # Null
     THEN [f2 EXCEPT !.pc = "get_old_cat"]
     ELSE AddChannelAppend(f2)

\* AddChannelGetOldCat without lines 243-248: the old category keeps the channel
AddChannelGetOldCat_KeepsChannel(f, cs) ==
  LET old == extract_elements_from_id_safe(f.channel.category_id)
      g == CategoryGet(cs, old[2])
  IN IF g.st = "raise" THEN Done(f, Raised) ELSE AddChannelAppend(f)

\* lines 242-247
AddChannelGetOldCat(f, cs) ==
  LET old == extract_elements_from_id_safe(f.channel.category_id)
      g == CategoryGet(cs, old[2])
      formatted_channel == Fmt("channel", ChanOid(f.chan_id))
  IN IF g.st = "raise" THEN Done(f, Raised)
     ELSE IF g.st = "ok" /\ ~g.doc.is_deleted /\ Contains(g.doc.channels_order, formatted_channel)
     THEN [f EXCEPT !.old_id = g.id,
                    !.old_cat = [g.doc EXCEPT !.channels_order = Without(@, formatted_channel)],
                    !.pc = "save_old_cat"]
     ELSE AddChannelAppend(f)

\* one step of add_channel_to_category: from one store access to the next
AddChannelStep(f, db) ==
  CASE f.pc = "get_category" ->
         [f |-> AddChannelGetCategory(f, db.cats), db |-> db]
    [] f.pc = "get_channel" ->
         [f |-> AddChannelGetChannel(f, db.chans), db |-> db]
    [] f.pc = "get_old_cat" ->
         [f |-> AddChannelGetOldCat(f, db.cats), db |-> db]
    [] f.pc = "save_old_cat" ->      \* line 248
         [f |-> AddChannelAppend(f),
          db |-> [db EXCEPT !.cats = SaveCat(db.cats, f.old_id, f.old_cat)]]
    [] f.pc = "save_category" ->     \* lines 257-261
         [f |-> [f EXCEPT !.channel.category_id = Fmt("category", f.cat_id), !.pc = "save_channel"],
          db |-> [db EXCEPT !.cats = SaveCat(db.cats, f.cat_id, f.category)]]
    [] f.pc = "save_channel" ->      \* lines 262-267
         [f |-> Done(f, Ok),
          db |-> [db EXCEPT !.chans = SaveChan(db.chans, f.chan_id, f.channel)]]

\* ---------------------------------------------------------------- identities and credentials
\* model.user_model.User: auth_id is the UUID shared with the credential
User(auth_id, is_deleted) ==
  [auth_id |-> auth_id, is_online |-> FALSE, last_seen |-> 0, is_deleted |-> is_deleted]

\* internal_auth.auth_model.Auth: user_id is the same UUID
Auth(user_id, is_active) == [user_id |-> user_id, is_active |-> is_active]

\* The accounts registered before the run: identities 1 and 2 with an active
\* credential, identity 3 with a deactivated credential, identity 4
\* soft-deleted with an active credential. UUID u is written Str(u).
Users0 == <<User(1, FALSE), User(2, FALSE), User(3, FALSE), User(4, TRUE)>>
Auths0 == <<Auth(1, TRUE), Auth(2, TRUE), Auth(3, FALSE), Auth(4, TRUE)>>

\* UUID(s): the UUID a string denotes, -1 when it is not a valid UUID
ParseUuid(s) ==
  IF Len(s) = 1 /\ \E i \in OidSpace : OidStr[i] = s[1]
  THEN CHOOSE i \in OidSpace : OidStr[i] = s[1]
  ELSE -1

\* User.find_by_auth_id(uuid): the first non-deleted identity with that auth_id, 0 when none
find_by_auth_id(us, uuid) ==
  LET S == {i \in 1..Len(us) : us[i].auth_id = uuid /\ ~us[i].is_deleted}
  IN IF S = {} THEN 0 ELSE Min(S)

\* Auth.find_one(Auth.id == ObjectId(auth_id)), app.py lines 104-110: 0 when
\* the string is no ObjectId, the query fails or no credential has that id
FindAuthById(as, auth_id, fault) ==
  LET i == ParseOid(auth_id)
  IN IF fault = "find_auth" \/ i \notin 1..Len(as) THEN 0 ELSE i

\* Auth.find_one(Auth.user_id == user_uuid), app.py lines 113-118
FindAuthByUser(as, uuid, fault) ==
  LET S == {i \in 1..Len(as) : as[i].user_id = uuid}
  IN IF fault = "find_auth_by_user" \/ S = {} THEN 0 ELSE Min(S)

\* User.set_online_status: going online stamps last_seen with the current time
set_online_status(user, is_online) ==
  [user EXCEPT !.is_online = is_online,
               !.last_seen = IF is_online THEN @ + 1 ELSE @]

\* ---------------------------------------------------------------- connect
\* what a connect handler hands back: its return value, the session table,
\* the User collection and the events it emitted (event, receiving connection)
Handshake(accepted, ss, us, emits) ==
  [accepted |-> accepted, sessions |-> ss, users |-> us, emits |-> emits]

\* JWTService.verify_access_token: the payload of a token that verifies
NoToken == [valid |-> FALSE, user_id |-> Null, auth_id |-> Null]
Token(user_id, auth_id) == [valid |-> TRUE, user_id |-> user_id, auth_id |-> auth_id]

\* sio.save_session(sid, {...}), app.py lines 142-150
save_session(ss, sid, session) ==
  [s \in DOMAIN ss \cup {sid} |-> IF s = sid THEN session ELSE ss[s]]

\* connect without line 153: the identity is saved without going online
ConnectAccept_StaysOffline(ss, us, sid, u, fault) ==
  LET ss2 == save_session(ss, sid, [authenticated |-> TRUE, user_id |-> Str(u)])
      us2 == us
  IN IF fault = "save_session" THEN Handshake(FALSE, ss, us, {})
     ELSE IF fault = "save_user" THEN Handshake(FALSE, ss2, us, {})
     ELSE IF fault = "emit" THEN Handshake(FALSE, ss2, us2, {})
     ELSE Handshake(TRUE, ss2, us2, {[event |-> "auth_success", to |-> sid]})

\* connect, app.py lines 141-169: the checks have passed for identity u
ConnectAccept(ss, us, sid, u, fault) ==
  LET ss2 == save_session(ss, sid, [authenticated |-> TRUE, user_id |-> Str(u)])
      us2 == [us EXCEPT ![u] = set_online_status(us[u], TRUE)]
  IN IF fault = "save_session" THEN Handshake(FALSE, ss, us, {})
     ELSE IF fault = "save_user" THEN Handshake(FALSE, ss2, us, {})
     ELSE IF fault = "emit" THEN Handshake(FALSE, ss2, us2, {})
     ELSE Handshake(TRUE, ss2, us2, {[event |-> "auth_success", to |-> sid]})

\* connect, app.py lines 55-169. h is the handshake: the token of the auth
\* payload, of the query string and of the Authorization header, Null when
\* absent. fault names the store or emit call that fails, "none" when none does.
connect(ss, us, as, sid, h, fault) ==
  LET token == IF h.auth # Null THEN h.auth ELSE h.query
      refused == Handshake(FALSE, ss, us, {})
  IN IF token = Null THEN refused
     ELSE IF ~token.valid THEN refused
     ELSE IF token.user_id = Null \/ token.auth_id = Null THEN refused
     ELSE LET user_uuid == ParseUuid(token.user_id)
              u == find_by_auth_id(us, user_uuid)
              by_id == FindAuthById(as, token.auth_id, fault)
              a == IF by_id # 0 THEN by_id ELSE FindAuthByUser(as, user_uuid, fault)
          IN IF user_uuid = -1 \/ fault = "find_user" THEN refused
             ELSE IF u = 0 THEN refused
             ELSE IF a = 0 THEN refused
             ELSE IF as[a].user_id # user_uuid THEN refused
             ELSE IF ~as[a].is_active THEN refused
             ELSE ConnectAccept(ss, us, sid, u, fault)

\* ---------------------------------------------------------------- disconnect
\* User.get(user_id): 0 when no identity has that id, -1 when it raises
UserGet(us, user_id, fault) ==
  LET i == ParseOid(user_id)
  IN IF fault = "get_user" \/ i = -1 THEN -1
     ELSE IF i \in 1..Len(us) THEN i ELSE 0

\* disconnect without lines 186-187: the identity stays online
disconnect_StaysOnline(ss, us, sid, fault) == us

\* disconnect, app.py lines 171-194: the User collection it leaves. Every
\* failure is caught and logged (lines 193-194).
disconnect(ss, us, sid, fault) ==
  IF fault = "get_session" \/ ~Authenticated(ss, sid) \/ ss[sid].user_id = Null THEN us
  ELSE LET u == UserGet(us, ss[sid].user_id, fault)
       IN IF u <= 0 \/ fault = "save_user" THEN us
          ELSE [us EXCEPT ![u] = set_online_status(us[u], FALSE)]

\* What the Socket.IO server does with a connection whose connect handler
\* returned False or whose disconnect handler has returned: the connection id
\* stops existing, and with it its session and its room memberships.
ServerDrop_KeepsRooms(ss, rs, sid) ==
  [sessions |-> [s \in DOMAIN ss \ {sid} |-> ss[s]],
   rooms |-> rs]

ServerDrop(ss, rs, sid) ==
  [sessions |-> [s \in DOMAIN ss \ {sid} |-> ss[s]],
   rooms |-> {m \in rs : m[2] # sid}]

\* ---------------------------------------------------------------- rooms and messages
\* what a room or message handler hands back: the room memberships, its
\* response and the room names it published a "message_creation" event for
Handled(rs, resp, published) == [rooms |-> rs, resp |-> resp, published |-> published]

\* f"{room_type}:{room_id}"
RoomName(room_type, room_id) == room_type \o <<":">> \o room_id

\* join_room, room_receiver.py lines 14-37; the response is emitted to the caller
join_room(rs, chs, sid, schema_ok, room_type, room_id) ==
  LET g == ChannelGet(chs, room_id)
  IN IF ~schema_ok THEN Handled(rs, Fail("validation"), <<>>)
     ELSE IF room_type # Lit("channel")
     THEN Handled(rs, Fail("Only channel rooms are allowed"), <<>>)
     ELSE IF g.st = "raise" THEN Handled(rs, Raised, <<>>)
     ELSE IF g.st = "none" THEN Handled(rs, Fail("Channel not found"), <<>>)
     ELSE Handled(rs \cup {<<RoomName(room_type, room_id), sid>>}, Ok, <<>>)

\* leave_room closing the room instead of leaving it: every member is removed
leave_room_EmptiesRoom(rs, chs, sid, schema_ok, room_type, room_id) ==
  LET g == ChannelGet(chs, room_id)
  IN IF ~schema_ok THEN Handled(rs, Fail("validation"), <<>>)
     ELSE IF room_type # Lit("channel")
     THEN Handled(rs, Fail("Only channel rooms are allowed"), <<>>)
     ELSE IF g.st = "raise" THEN Handled(rs, Raised, <<>>)
     ELSE IF g.st = "none" THEN Handled(rs, Fail("Channel not found"), <<>>)
     ELSE Handled({m \in rs : m[1] # RoomName(room_type, room_id)}, Ok, <<>>)

\* leave_room, room_receiver.py lines 39-62
leave_room(rs, chs, sid, schema_ok, room_type, room_id) ==
  LET g == ChannelGet(chs, room_id)
  IN IF ~schema_ok THEN Handled(rs, Fail("validation"), <<>>)
     ELSE IF room_type # Lit("channel")
     THEN Handled(rs, Fail("Only channel rooms are allowed"), <<>>)
     ELSE IF g.st = "raise" THEN Handled(rs, Raised, <<>>)
     ELSE IF g.st = "none" THEN Handled(rs, Fail("Channel not found"), <<>>)
     ELSE Handled(rs \ {<<RoomName(room_type, room_id), sid>>}, Ok, <<>>)

\* datetime.now(): a time stamp; only whether one is set is kept
Now == Lit("now")

\* model.message_model.Message as constructed by send_message (line 53) and
\* completed by before_insert (message_model.py lines 16-21)
Message(content, sent_by, sent_to) ==
  [content |-> content, sent_by |-> sent_by, sent_to |-> sent_to, is_deleted |-> FALSE,
   deleted_at |-> Null]

NoMessage == Message(Null, Null, Null)

\* Message.get(s)
MessageGet(ms, s) ==
  LET i == ParseOid(s)
  IN IF i = -1 THEN [st |-> "raise", id |-> 0, doc |-> NoMessage]
     ELSE IF i \in 1..Len(ms) THEN [st |-> "ok", id |-> i, doc |-> ms[i]]
     ELSE [st |-> "none", id |-> 0, doc |-> NoMessage]

\* what a message command hands back: the Message collection, its response,
\* the events it published and the frames it emitted itself
Posted(ms, resp, published, emits) ==
  [messages |-> ms, resp |-> resp, published |-> published, emits |-> emits]

\* sio.emit("system", ..., room=sid)
System(sid) == {[event |-> "system", to |-> sid]}

\* send_message, message_receiver.py lines 18-64; an unauthenticated caller
\* gets the error as a "system" frame and no return value
send_message(ms, ss, chs, sid, schema_ok, content, send_to, fault) ==
  LET e == extract_elements_from_id(send_to)
      send_to_type == e.parts[1]
      send_to_id == e.parts[2]
      g == ChannelGet(chs, send_to_id)
      message == Message(content, <<"user", ":">> \o ss[sid].user_id,
                         RoomName(send_to_type, send_to_id))
  IN IF ~Authenticated(ss, sid) THEN Posted(ms, NoResp, <<>>, System(sid))
     ELSE IF ss[sid].user_id = Null THEN Posted(ms, NoResp, <<>>, System(sid))
     ELSE IF ~schema_ok THEN Posted(ms, Fail("validation"), <<>>, {})
     ELSE IF e.raised THEN Posted(ms, Raised, <<>>, {})
     ELSE IF send_to_type = Null \/ send_to_id = Null
     THEN Posted(ms, Fail("Invalid send_to format"), <<>>, {})
     ELSE IF send_to_type = Lit("channel") /\ g.st = "raise"
     THEN Posted(ms, Fail("exception"), <<>>, {})
     ELSE IF send_to_type = Lit("channel") /\ g.st = "none"
     THEN Posted(ms, Fail("Channel not found"), <<>>, {})
     ELSE IF fault = "insert" THEN Posted(ms, Fail("exception"), <<>>, {})
     ELSE Posted(Append(ms, message), Ok,
                 <<Event("message_creation", message.sent_to)>>, System(sid))

\* update_message writing the editor into sent_by along with the content
update_message_Reassigns(ms, ss, sid, schema_ok, id, content, fault) ==
  LET e == extract_elements_from_id(id)
      id_type == e.parts[1]
      id_value == e.parts[2]
      g == MessageGet(ms, id_value)
  IN IF ~Authenticated(ss, sid) THEN Posted(ms, NoResp, <<>>, System(sid))
     ELSE IF ss[sid].user_id = Null THEN Posted(ms, NoResp, <<>>, System(sid))
     ELSE IF e.raised THEN Posted(ms, Fail("exception"), <<>>, {})
     ELSE IF id_type = Null \/ id_value = Null \/ id_type # Lit("message")
     THEN Posted(ms, Fail("Invalid id format"), <<>>, {})
     ELSE IF ~schema_ok THEN Posted(ms, Fail("validation"), <<>>, {})
     ELSE IF g.st = "raise" THEN Posted(ms, Fail("exception"), <<>>, {})
     ELSE IF g.st = "none" THEN Posted(ms, Fail("Message not found"), <<>>, {})
     ELSE IF fault = "save" THEN Posted(ms, Fail("exception"), <<>>, {})
     ELSE Posted([ms EXCEPT ![g.id] =
                    [g.doc EXCEPT !.content = content,
                                  !.sent_by = <<"user", ":">> \o ss[sid].user_id]],
                 Ok, <<Event("message_update", g.doc.sent_to)>>, System(sid))

\* update_message, message_receiver.py lines 96-140
update_message(ms, ss, sid, schema_ok, id, content, fault) ==
  LET e == extract_elements_from_id(id)
      id_type == e.parts[1]
      id_value == e.parts[2]
      g == MessageGet(ms, id_value)
  IN IF ~Authenticated(ss, sid) THEN Posted(ms, NoResp, <<>>, System(sid))
     ELSE IF ss[sid].user_id = Null THEN Posted(ms, NoResp, <<>>, System(sid))
     ELSE IF e.raised THEN Posted(ms, Fail("exception"), <<>>, {})
     ELSE IF id_type = Null \/ id_value = Null \/ id_type # Lit("message")
     THEN Posted(ms, Fail("Invalid id format"), <<>>, {})
     ELSE IF ~schema_ok THEN Posted(ms, Fail("validation"), <<>>, {})
     ELSE IF g.st = "raise" THEN Posted(ms, Fail("exception"), <<>>, {})
     ELSE IF g.st = "none" THEN Posted(ms, Fail("Message not found"), <<>>, {})
     ELSE IF fault = "save" THEN Posted(ms, Fail("exception"), <<>>, {})
     ELSE Posted([ms EXCEPT ![g.id] = [g.doc EXCEPT !.content = content]],
                 Ok, <<Event("message_update", g.doc.sent_to)>>, System(sid))

\* delete_message, message_receiver.py lines 145-185
delete_message(ms, ss, sid, schema_ok, id, fault) ==
  LET e == extract_elements_from_id(id)
      id_type == e.parts[1]
      id_value == e.parts[2]
      g == MessageGet(ms, id_value)
  IN IF ~Authenticated(ss, sid) THEN Posted(ms, NoResp, <<>>, System(sid))
     ELSE IF ss[sid].user_id = Null THEN Posted(ms, NoResp, <<>>, System(sid))
     ELSE IF ~schema_ok THEN Posted(ms, Fail("validation"), <<>>, {})
     ELSE IF e.raised THEN Posted(ms, Raised, <<>>, {})
     ELSE IF id_type = Null \/ id_value = Null \/ id_type # Lit("message")
     THEN Posted(ms, Fail("Invalid id format"), <<>>, {})
     ELSE IF g.st = "raise" THEN Posted(ms, Fail("exception"), <<>>, {})
     ELSE IF g.st = "none" THEN Posted(ms, Fail("Message not found"), <<>>, {})
     ELSE IF g.doc.is_deleted THEN Posted(ms, Fail("Message already deleted"), <<>>, {})
     ELSE IF fault = "save" THEN Posted(ms, Fail("exception"), <<>>, {})
     ELSE Posted([ms EXCEPT ![g.id] = [g.doc EXCEPT !.is_deleted = TRUE, !.deleted_at = Now]],
                 Ok, <<Event("message_delete", g.doc.sent_to)>>, System(sid))

\* restore_message clearing is_deleted only: line 222 left out
restore_message_KeepsTimestamp(ms, ss, sid, schema_ok, id, fault) ==
  LET e == extract_elements_from_id(id)
      id_type == e.parts[1]
      id_value == e.parts[2]
      g == MessageGet(ms, id_value)
  IN IF ~Authenticated(ss, sid) THEN Posted(ms, NoResp, <<>>, System(sid))
     ELSE IF ss[sid].user_id = Null THEN Posted(ms, NoResp, <<>>, System(sid))
     ELSE IF ~schema_ok THEN Posted(ms, Fail("validation"), <<>>, {})
     ELSE IF e.raised THEN Posted(ms, Raised, <<>>, {})
     ELSE IF id_type = Null \/ id_value = Null \/ id_type # Lit("message")
     THEN Posted(ms, Fail("Invalid id format"), <<>>, {})
     ELSE IF g.st = "raise" THEN Posted(ms, Fail("exception"), <<>>, {})
     ELSE IF g.st = "none" THEN Posted(ms, Fail("Message not found"), <<>>, {})
     ELSE IF ~g.doc.is_deleted THEN Posted(ms, Fail("Message isn't deleted"), <<>>, {})
     ELSE IF fault = "save" THEN Posted(ms, Fail("exception"), <<>>, {})
     ELSE Posted([ms EXCEPT ![g.id] = [g.doc EXCEPT !.is_deleted = FALSE]],
                 Ok, <<Event("message_restore", g.doc.sent_to)>>, System(sid))

\* restore_message, message_receiver.py lines 190-230
restore_message(ms, ss, sid, schema_ok, id, fault) ==
  LET e == extract_elements_from_id(id)
      id_type == e.parts[1]
      id_value == e.parts[2]
      g == MessageGet(ms, id_value)
  IN IF ~Authenticated(ss, sid) THEN Posted(ms, NoResp, <<>>, System(sid))
     ELSE IF ss[sid].user_id = Null THEN Posted(ms, NoResp, <<>>, System(sid))
     ELSE IF ~schema_ok THEN Posted(ms, Fail("validation"), <<>>, {})
     ELSE IF e.raised THEN Posted(ms, Raised, <<>>, {})
     ELSE IF id_type = Null \/ id_value = Null \/ id_type # Lit("message")
     THEN Posted(ms, Fail("Invalid id format"), <<>>, {})
     ELSE IF g.st = "raise" THEN Posted(ms, Fail("exception"), <<>>, {})
     ELSE IF g.st = "none" THEN Posted(ms, Fail("Message not found"), <<>>, {})
     ELSE IF ~g.doc.is_deleted THEN Posted(ms, Fail("Message isn't deleted"), <<>>, {})
     ELSE IF fault = "save" THEN Posted(ms, Fail("exception"), <<>>, {})
     ELSE Posted([ms EXCEPT ![g.id] = [g.doc EXCEPT !.is_deleted = FALSE, !.deleted_at = Null]],
                 Ok, <<Event("message_restore", g.doc.sent_to)>>, System(sid))

\* message_creation_event with the room argument of line 20 left out: the
\* members of every room receive the message
message_creation_event_NoRoom(rs, sent_to) == {m[2] : m \in rs}

\* message_creation_event, message_sender.py lines 14-20: sio.emit("message",
\* ..., room=message.sent_to) reaches the connections that are in that room
message_creation_event(rs, sent_to) == {m[2] : m \in {n \in rs : n[1] = sent_to}}

\* ---------------------------------------------------------------- running handlers
Step(f, db) ==
  CASE f.op = "reorder_categories" -> ReorderStep(f, db)
    [] f.op = "add_channel_to_category" -> AddChannelStep(f, db)

RECURSIVE Run(_, _)
\* a handler run from frame f to its end with no other handler in between
Run(f, db) == IF f.pc = "done" THEN [f |-> f, db |-> db] ELSE LET r == Step(f, db) IN Run(r.f, r.db)

\* a handler slot no command has been given to
Idle == [op |-> "idle", pc |-> "done"]
\* the handler invocations that may be in flight at once
Tasks == {1, 2}
NoTaskRunning == \A t \in Tasks : tasks[t] = Idle

DB == [cats |-> cats, chans |-> chans]

NoCommand == [op |-> "none", args |-> <<>>, resp |-> NoResp]
NoStore == [cats |-> <<>>, chans |-> <<>>]

\* The history variables record one command of a run, the one under
\* observation, and the run ends with it: every claim about a command speaks
\* of one command issued in one reachable store, so nothing is lost by not
\* continuing past the observed command.
Unobserved == last = NoCommand

\* a command handled from arrival to response, with no other handler in between
Complete(op, args, db2, resp, observe) ==
  /\ cats' = db2.cats
  /\ chans' = db2.chans
  /\ last' = IF observe THEN [op |-> op, args |-> args, resp |-> resp] ELSE NoCommand
  /\ pre' = IF observe THEN DB ELSE NoStore
  /\ UNCHANGED <<sessions, tasks, session_vars>>

\* ---------------------------------------------------------------- inputs
\* A client knows the ids the server has handed out, so the ids it sends are
\* those of stored documents (soft-deleted ones included) and a stale id that
\* names no stored document.
StaleCatRef == Fmt("category", 0)
StaleChanRef == Fmt("channel", 0)
CatRefs == {Fmt("category", i) : i \in 1..Len(cats)} \cup {StaleCatRef}
ChanRefs == {Fmt("channel", ChanOid(j)) : j \in 1..Len(chans)} \cup {StaleChanRef}
\* a next_category_id: absent or a category id
NextInputs == {Null} \cup CatRefs
\* the same, and an id with the wrong type prefix
PointerInputs == NextInputs \cup {Fmt("channel", 1)}
\* a prev_category_id: absent, a category id, an id with the wrong type prefix,
\* an id with no type prefix
PrevInputs == {Null} \cup CatRefs \cup {Fmt("channel", 1), Str(1)}
\* an entry of ordered_channel_ids: a channel id or an id with the wrong type prefix
OrderIds == ChanRefs \cup {Fmt("category", 1)}
\* the category_id and channel_id of add_channel_to_category: an id of the
\* right kind, or an id with the wrong type prefix
AddCategoryInputs == CatRefs \cup {Fmt("channel", ChanBase + 1)}
AddChannelInputs == ChanRefs \cup {Fmt("category", 1)}
\* an ordered_channel_ids list
OrderInputs == UNION {[1..k -> OrderIds] : k \in 0..MaxOrderLen}
\* connection ids
Sids == {1, 2}

\* ---------------------------------------------------------------- actions
\* n bounds the categories of the run; Obs says whether the command may be
\* the observed one
Quiet == NoTaskRunning /\ Unobserved

CreateCategory(n, Nexts, Obs) ==
  /\ Quiet
  /\ Len(cats) < n
  /\ \E next_category_id \in Nexts, observe \in Obs :
       LET r == create_category(DB, TRUE, next_category_id)
       IN Complete("create_category", [next_category_id |-> next_category_id],
                   r.db, r.resp, observe)

UpdateCategory(Nexts, Obs) ==
  /\ Quiet
  /\ \E id \in CatRefs, next_category_id \in Nexts, observe \in Obs :
       LET r == update_category(DB, id, next_category_id)
       IN Complete("update_category", [id |-> id, next_category_id |-> next_category_id],
                   r.db, r.resp, observe)

DeleteCategory(Obs) ==
  /\ Quiet
  /\ \E i \in 0..Len(cats), observe \in Obs :
       LET r == delete_category(DB, Str(i))
       IN Complete("delete_category", [id |-> Str(i)], r.db, r.resp, observe)

ReorderCategories(Obs) ==
  /\ Quiet
  /\ \E target \in CatRefs, prev \in PrevInputs, observe \in Obs :
       LET r == Run(ReorderBegin(target, prev), DB)
       IN Complete("reorder_categories",
                   [target_category_id |-> target, prev_category_id |-> prev],
                   r.db, r.f.resp, observe)

CreateChannel(m, Obs) ==
  /\ Quiet
  /\ Len(chans) < m
  /\ \E category_id \in {Null} \cup CatRefs, observe \in Obs :
       LET r == create_channel(DB, TRUE, category_id, "none")
       IN Complete("create_channel", [category_id |-> category_id], r.db, r.resp, observe)

DeleteChannel(Obs) ==
  /\ Quiet
  /\ \E sid \in Sids, id \in ChanRefs, observe \in Obs :
       LET r == delete_channel(DB, sessions, sid, TRUE, id, "none")
       IN Complete("delete_channel", [sid |-> sid, id |-> id], r.db, r.resp, observe)

ReorderCategoryChannels(Obs) ==
  /\ Quiet
  /\ \E category_id \in CatRefs, ordered_channel_ids \in OrderInputs, observe \in Obs :
       LET r == reorder_category_channels(DB, category_id, ordered_channel_ids)
       IN Complete("reorder_category_channels",
                   [category_id |-> category_id, ordered_channel_ids |-> ordered_channel_ids],
                   r.db, r.resp, observe)

AddChannelToCategory(Obs) ==
  /\ Quiet
  /\ \E category_id \in AddCategoryInputs, channel_id \in AddChannelInputs, observe \in Obs :
       LET r == Run(AddChannelBegin(category_id, channel_id), DB)
       IN Complete("add_channel_to_category",
                   [category_id |-> category_id, channel_id |-> channel_id],
                   r.db, r.f.resp, observe)

\* a client issues the same add_channel_to_category twice in a row and the
\* pair is observed; resp is the second response, first the first one
AddChannelToCategoryTwice ==
  /\ Quiet
  /\ \E category_id \in CatRefs, channel_id \in ChanRefs :
       LET r1 == Run(AddChannelBegin(category_id, channel_id), DB)
           r2 == Run(AddChannelBegin(category_id, channel_id), r1.db)
       IN /\ cats' = r2.db.cats
          /\ chans' = r2.db.chans
          /\ last' = [op |-> "add_channel_to_category twice",
                      args |-> [category_id |-> category_id, channel_id |-> channel_id],
                      resp |-> r2.f.resp, first |-> r1.f.resp]
          /\ pre' = DB
          /\ UNCHANGED <<sessions, tasks, session_vars>>

\* the setup API has not been called
NoSetup ==
  /\ progress = <<>>
  /\ admins = {}
  /\ server = FALSE

\* the registered accounts; no room has a member and no event is published
NoSessions ==
  /\ users = Users0
  /\ auths = Auths0
  /\ rooms = {}
  /\ pending = <<>>
  /\ joined = {}
  /\ messages = <<>>
  /\ NoSetup

Init ==
  /\ cats = <<>>
  /\ chans = <<>>
  /\ sessions = <<>>
  /\ tasks = [t \in Tasks |-> Idle]
  /\ last = NoCommand
  /\ pre = NoStore
  /\ conns = [s \in Sids |-> "connecting"]
  /\ NoSessions

\* the category commands, one at a time; a reorder_categories may be observed
Next ==
  \/ CreateCategory(MaxCats, NextInputs, {FALSE})
  \/ UpdateCategory(NextInputs, {FALSE})
  \/ DeleteCategory({FALSE})
  \/ ReorderCategories(BOOLEAN)

Spec == Init /\ [][Next]_vars

\* create_category and update_category under observation, with every kind
\* of next_category_id
NextPointers ==
  \/ CreateCategory(MaxCats, PointerInputs, BOOLEAN)
  \/ UpdateCategory(PointerInputs, BOOLEAN)
  \/ DeleteCategory({FALSE})

SpecPointers == Init /\ [][NextPointers]_vars

\* a store with no documents and one authenticated connection: connection 1
\* has completed the handshake, connection 2 has no session
InitChan ==
  /\ cats = <<>>
  /\ chans = <<>>
  /\ sessions = (1 :> [authenticated |-> TRUE, user_id |-> Str(1)])
  /\ tasks = [t \in Tasks |-> Idle]
  /\ last = NoCommand
  /\ pre = NoStore
  /\ conns = [s \in Sids |-> IF s = 1 THEN "open" ELSE "connecting"]
  /\ users = [Users0 EXCEPT ![1] = set_online_status(@, TRUE)]
  /\ auths = Auths0
  /\ rooms = {}
  /\ pending = <<>>
  /\ joined = {}
  /\ messages = <<>>
  /\ NoSetup

\* the commands that touch channel membership, one at a time
NextChan ==
  \/ CreateCategory(MaxChanCats, {Null}, BOOLEAN)
  \/ DeleteCategory(BOOLEAN)
  \/ CreateChannel(MaxChans, BOOLEAN)
  \/ DeleteChannel(BOOLEAN)
  \/ ReorderCategoryChannels(BOOLEAN)
  \/ AddChannelToCategory(BOOLEAN)
  \/ AddChannelToCategoryTwice

SpecChan == InitChan /\ [][NextChan]_vars

\* ---------------------------------------------------------------- handlers in flight
\* a command arrives and its handler starts; the store it starts from is recorded
BeginReorderCategories(t) ==
  /\ Unobserved
  /\ tasks[t] = Idle
  /\ \E target \in CatRefs, prev \in PrevInputs :
       tasks' = [tasks EXCEPT ![t] = ReorderBegin(target, prev)]
  /\ pre' = DB
  /\ UNCHANGED <<cats, chans, sessions, last, session_vars>>

\* the handler in slot t runs from one store access to the next
StepTask(t) ==
  /\ tasks[t].pc # "done"
  /\ LET r == Step(tasks[t], DB)
     IN /\ tasks' = [tasks EXCEPT ![t] = r.f]
        /\ cats' = r.db.cats
        /\ chans' = r.db.chans
  /\ UNCHANGED <<sessions, last, pre, session_vars>>

\* category commands one at a time, then one reorder_categories whose store
\* accesses a reader can see between
NextReader ==
  \/ CreateCategory(MaxCats, NextInputs, {FALSE})
  \/ UpdateCategory(NextInputs, {FALSE})
  \/ DeleteCategory({FALSE})
  \/ ReorderCategories({FALSE})
  \/ BeginReorderCategories(1)
  \/ StepTask(1)

SpecReader == Init /\ [][NextReader]_vars

\* ---------------------------------------------------------------- two handlers in flight
\* a next_category_id that puts the new category in front of the chain built so far
ChainNextInputs == IF cats = <<>> THEN {Null} ELSE {Fmt("category", Len(cats))}

\* two commands arrive before either handler has reached its first store
\* access; the store they start from is recorded
BeginPair(f1, f2) ==
  /\ Quiet
  /\ tasks' = [tasks EXCEPT ![1] = f1, ![2] = f2]
  /\ pre' = DB
  /\ UNCHANGED <<cats, chans, sessions, last, session_vars>>

BeginTwoReorders ==
  \E t1, t2 \in CatRefs, p1, p2 \in NextInputs :
    BeginPair(ReorderBegin(t1, p1), ReorderBegin(t2, p2))

\* a chain is built, then two reorder_categories run with their store
\* accesses interleaved in every order
NextRace ==
  \/ CreateCategory(MaxCats, ChainNextInputs, {FALSE})
  \/ BeginTwoReorders
  \/ StepTask(1)
  \/ StepTask(2)

SpecRace == Init /\ [][NextRace]_vars

BeginTwoAdds ==
  \E c1, c2 \in CatRefs, ch1, ch2 \in ChanRefs :
    BeginPair(AddChannelBegin(c1, ch1), AddChannelBegin(c2, ch2))

\* categories and channels are created, then two add_channel_to_category run
\* with their store accesses interleaved in every order
NextAddRace ==
  \/ CreateCategory(MaxChanCats, {Null}, {FALSE})
  \/ CreateChannel(MaxChans, {FALSE})
  \/ AddChannelToCategory({FALSE})
  \/ BeginTwoAdds
  \/ StepTask(1)
  \/ StepTask(2)

SpecAddRace == InitChan /\ [][NextAddRace]_vars

\* one more reorder_categories of a run in which every command so far has
\* succeeded; the command and the store it started from are recorded
ReorderInSequence ==
  /\ NoTaskRunning
  /\ last.op = "none" \/ (last.op = "reorder_categories" /\ last.resp.success)
  /\ \E target \in CatRefs, prev \in NextInputs :
       LET r == Run(ReorderBegin(target, prev), DB)
       IN /\ cats' = r.db.cats
          /\ last' = [op |-> "reorder_categories",
                      args |-> [target_category_id |-> target, prev_category_id |-> prev],
                      resp |-> r.f.resp]
          /\ pre' = DB
          /\ UNCHANGED <<chans, sessions, tasks, session_vars>>

\* a chain is built, then reorder_categories commands follow one another, or
\* one category of the chain is deleted
NextSequence ==
  \/ CreateCategory(MaxCats, ChainNextInputs, {FALSE})
  \/ ReorderInSequence
  \/ DeleteCategory({TRUE})

SpecSequence == Init /\ [][NextSequence]_vars

\* ---------------------------------------------------------------- connections
\* the store, sessions and rooms a connection command starts from
Snapshot ==
  [cats |-> cats, chans |-> chans, sessions |-> sessions, users |-> users,
   rooms |-> rooms, conns |-> conns, pending |-> pending, messages |-> messages]

\* the user_id and auth_id a verified token can carry: absent, no UUID / no
\* ObjectId, the id of a stored record, and (auth_id) a well-formed id of no record
TokenUserIds == {Null, Lit("x")} \cup {Str(u) : u \in 1..Len(users)}
TokenAuthIds == {Null, Lit("x"), Str(0)} \cup {Str(a) : a \in 1..Len(auths)}
Tokens == {NoToken} \cup {Token(u, a) : u \in TokenUserIds, a \in TokenAuthIds}

\* a handshake carries a token in its auth payload, or none at all, or a
\* token in the query string or in the Authorization header only, or a good
\* token in one of auth payload and query string and a bad one in the other
Handshakes ==
  {[auth |-> t, query |-> Null, header |-> Null] : t \in Tokens}
  \cup {[auth |-> Null, query |-> q, header |-> hd] :
          q \in {Null, Token(Str(1), Str(1))}, hd \in {Null, Token(Str(1), Str(1))}}
  \cup {[auth |-> NoToken, query |-> Token(Str(1), Str(1)), header |-> Null],
        [auth |-> Token(Str(1), Str(1)), query |-> NoToken, header |-> Null]}

\* the store or emit call of connect that fails
ConnectFaults ==
  {"find_user", "find_auth", "find_auth_by_user", "save_session", "save_user", "emit"}
\* the store call of disconnect that fails
DisconnectFaults == {"none", "get_session", "get_user", "save_user"}

\* a command that has been handled: its response, the frames emitted for it
\* and the events it published
CompletePublished(op, args, resp, emits, published, observe) ==
  /\ last' = IF observe
             THEN [op |-> op, args |-> args, resp |-> resp, emits |-> emits,
                   published |-> published]
             ELSE NoCommand
  /\ pre' = IF observe THEN Snapshot ELSE NoStore

\* a session command that has been handled
CompleteSession(op, args, resp, emits, observe) ==
  CompletePublished(op, args, resp, emits, <<>>, observe)

\* the handshakes of two identities: a good token of identity 1 or 2, or no
\* token
PlainHandshakes ==
  {[auth |-> t, query |-> Null, header |-> Null] :
     t \in {Null, Token(Str(1), Str(1)), Token(Str(2), Str(2))}}

\* the handshakes of one identity: a good token of identity 1, or no token
SingleHandshakes ==
  {[auth |-> t, query |-> Null, header |-> Null] : t \in {Null, Token(Str(1), Str(1))}}

\* A connection arrives and its connect handler runs. The server admits the
\* connection when the handler returns True and drops it otherwise. A call
\* fails only in a handshake that carries a good token.
Connect(sid, Hs, Faults, Obs) ==
  /\ Quiet
  /\ conns[sid] = "connecting"
  /\ \E h \in Hs, fault \in {"none"} \cup Faults, observe \in Obs :
       /\ fault # "none" => h.auth = Token(Str(1), Str(1))
       /\ LET r == connect(sessions, users, auths, sid, h, fault)
              d == ServerDrop(r.sessions, rooms, sid)
          IN /\ users' = r.users
             /\ sessions' = IF r.accepted THEN r.sessions ELSE d.sessions
             /\ rooms' = IF r.accepted THEN rooms ELSE d.rooms
             /\ conns' = [conns EXCEPT ![sid] = IF r.accepted THEN "open" ELSE "closed"]
             /\ CompleteSession("connect", [sid |-> sid, h |-> h, fault |-> fault],
                                Resp(r.accepted, ""), r.emits, observe)
  /\ UNCHANGED <<cats, chans, tasks, auths, setup_vars, pending, joined, messages>>

\* A connection goes away, during its handshake or after it: the disconnect
\* handler runs and the server drops the connection.
Disconnect(sid, Obs) ==
  /\ Quiet
  /\ conns[sid] # "closed"
  /\ \E fault \in DisconnectFaults, observe \in Obs :
       LET d == ServerDrop(sessions, rooms, sid)
       IN /\ users' = disconnect(sessions, users, sid, fault)
          /\ sessions' = d.sessions
          /\ rooms' = d.rooms
          /\ conns' = [conns EXCEPT ![sid] = "closed"]
          /\ CompleteSession("disconnect", [sid |-> sid, fault |-> fault], NoResp, {}, observe)
  /\ UNCHANGED <<cats, chans, tasks, auths, setup_vars, pending, joined, messages>>

\* the room_id of a join_room or leave_room: the id of a stored channel or a
\* well-formed id of no channel
RoomIds == {Str(ChanOid(j)) : j \in 1..Len(chans)} \cup {Str(0)}

JoinRoom(sid, Obs) ==
  /\ Quiet
  /\ conns[sid] # "closed"
  /\ \E room_id \in RoomIds, observe \in Obs :
       LET r == join_room(rooms, chans, sid, TRUE, Lit("channel"), room_id)
       IN /\ rooms' = r.rooms
          /\ joined' = IF r.resp.success
                       THEN joined \cup {<<RoomName(Lit("channel"), room_id), sid>>}
                       ELSE joined
          /\ CompleteSession("join_room", [sid |-> sid, room_id |-> room_id],
                             r.resp, {}, observe)
  /\ UNCHANGED <<cats, chans, sessions, tasks, users, auths, setup_vars, conns, pending, messages>>

LeaveRoom(sid, Obs) ==
  /\ Quiet
  /\ conns[sid] # "closed"
  /\ \E room_id \in RoomIds, observe \in Obs :
       LET r == leave_room(rooms, chans, sid, TRUE, Lit("channel"), room_id)
       IN /\ rooms' = r.rooms
          /\ CompleteSession("leave_room", [sid |-> sid, room_id |-> room_id],
                             r.resp, {}, observe)
  /\ UNCHANGED <<cats, chans, sessions, tasks, users, auths, setup_vars, conns, pending, joined, messages>>

\* the send_to of a send_message: a channel id or the id of something else
SendToInputs == ChanRefs \cup {Fmt("user", 1)}
\* the content of a message
Contents == {Lit("a"), Lit("b")}
\* the id of a message command: the id of a stored message, a well-formed id
\* of no message, an id of another kind, a string with no ":"
MessageRefs ==
  {Fmt("message", k) : k \in 0..Len(messages)} \cup {Fmt("channel", ChanBase + 1), Str(1)}

\* A message command of connection sid has been handled: the store holds
\* its messages and the bus the tasks of the events it published.
MessageCommandBy(sid, op, args, r, raises, observe) ==
  LET p == publish(pending, r.resp, r.published, raises)
  IN /\ messages' = r.messages
     /\ pending' = p.pending
     /\ CompletePublished(op, args, p.resp, r.emits, r.published, observe)
     /\ UNCHANGED <<cats, chans, sessions, tasks, users, auths, setup_vars, conns, rooms, joined>>

\* Targets are the send_to values, Faults the store calls that may fail, and
\* Raises says whether the handler of the published event may end with an
\* exception
SendMessage(sid, Targets, Faults, Raises, Obs) ==
  /\ Quiet
  /\ conns[sid] # "closed"
  /\ Len(pending) < MaxPending
  /\ Len(messages) < MaxMessages
  /\ \E send_to \in Targets, fault \in {"none"} \cup Faults, raises \in Raises,
        observe \in Obs :
       MessageCommandBy(sid, "send_message",
                        [sid |-> sid, send_to |-> send_to, fault |-> fault, raises |-> raises],
                        send_message(messages, sessions, chans, sid, TRUE, Lit("a"), send_to, fault),
                        raises, observe)

UpdateMessage(sid, Faults, Obs) ==
  /\ Quiet
  /\ conns[sid] # "closed"
  /\ \E id \in MessageRefs, content \in Contents, fault \in {"none"} \cup Faults,
        observe \in Obs :
       MessageCommandBy(sid, "update_message", [sid |-> sid, id |-> id, fault |-> fault],
                        update_message(messages, sessions, sid, TRUE, id, content, fault),
                        FALSE, observe)

DeleteMessage(sid, Faults, Obs) ==
  /\ Quiet
  /\ conns[sid] # "closed"
  /\ \E id \in MessageRefs, fault \in {"none"} \cup Faults, observe \in Obs :
       MessageCommandBy(sid, "delete_message", [sid |-> sid, id |-> id, fault |-> fault],
                        delete_message(messages, sessions, sid, TRUE, id, fault),
                        FALSE, observe)

RestoreMessage(sid, Faults, Obs) ==
  /\ Quiet
  /\ conns[sid] # "closed"
  /\ \E id \in MessageRefs, fault \in {"none"} \cup Faults, observe \in Obs :
       MessageCommandBy(sid, "restore_message", [sid |-> sid, id |-> id, fault |-> fault],
                        restore_message(messages, sessions, sid, TRUE, id, fault),
                        FALSE, observe)

\* The event bus runs the oldest handler task. A task that raises emits
\* nothing; the exception ends the task and nothing else.
MessageCreationEvent(Obs) ==
  /\ Quiet
  /\ pending # <<>>
  /\ \E observe \in Obs :
       LET task == Head(pending)
       IN CompleteSession("message_creation_event",
                          [sent_to |-> task.payload, raises |-> task.raises], NoResp,
                          IF task.raises THEN {}
                          ELSE {[event |-> "message", to |-> s] :
                                  s \in message_creation_event(rooms, task.payload)},
                          observe)
  /\ pending' = Tail(pending)
  /\ UNCHANGED <<cats, chans, sessions, tasks, users, auths, setup_vars, conns, rooms, joined, messages>>

\* a category or channel command sent by connection sid
CommandBy(sid, op, args, r, observe) ==
  LET p == publish(pending, r.resp, r.published, FALSE)
  IN /\ cats' = r.db.cats
     /\ chans' = r.db.chans
     /\ pending' = p.pending
     /\ CompletePublished(op, args, p.resp, {}, r.published, observe)
     /\ UNCHANGED <<sessions, tasks, users, auths, setup_vars, conns, rooms, joined, messages>>

CreateCategoryBy(sid, Obs) ==
  /\ Quiet
  /\ conns[sid] # "closed"
  /\ Len(cats) < MaxSessionCats
  /\ \E observe \in Obs :
       LET r == create_category(DB, TRUE, Null)
       IN CommandBy(sid, "create_category", [sid |-> sid],
                    Answer(r.db, r.resp, <<>>), observe)

CreateChannelBy(sid, Faults, Obs) ==
  /\ Quiet
  /\ conns[sid] # "closed"
  /\ Len(chans) < MaxRoomChans
  /\ \E fault \in {"none"} \cup Faults, observe \in Obs :
       CommandBy(sid, "create_channel", [sid |-> sid, fault |-> fault],
                 create_channel(DB, TRUE, Null, fault), observe)

UpdateChannelBy(sid, Faults, Obs) ==
  /\ Quiet
  /\ conns[sid] # "closed"
  /\ \E id \in ChanRefs, fault \in {"none"} \cup Faults, observe \in Obs :
       CommandBy(sid, "update_channel", [sid |-> sid, id |-> id, fault |-> fault],
                 update_channel(DB, sessions, sid, TRUE, id, fault), observe)

DeleteChannelBy(sid, Faults, Obs) ==
  /\ Quiet
  /\ conns[sid] # "closed"
  /\ \E id \in ChanRefs, fault \in {"none"} \cup Faults, observe \in Obs :
       CommandBy(sid, "delete_channel", [sid |-> sid, id |-> id, fault |-> fault],
                 delete_channel(DB, sessions, sid, TRUE, id, fault), observe)

\* no connection has arrived: the registered accounts, an empty store
InitSession ==
  /\ cats = <<>>
  /\ chans = <<>>
  /\ sessions = <<>>
  /\ tasks = [t \in Tasks |-> Idle]
  /\ last = NoCommand
  /\ pre = NoStore
  /\ users = Users0
  /\ auths = Auths0
  /\ conns = [s \in Sids |-> "connecting"]
  /\ rooms = {}
  /\ pending = <<>>
  /\ joined = {}
  /\ messages = <<>>
  /\ NoSetup

\* Connections arrive, send commands and go away; the server handles one
\* event at a time. A command is dispatched for a connection from the moment
\* its connect handler is started, so also before a session is stored.
NextSession ==
  \E sid \in Sids :
    \/ Connect(sid, Handshakes, ConnectFaults, BOOLEAN)
    \/ Disconnect(sid, BOOLEAN)
    \/ CreateCategoryBy(sid, BOOLEAN)
    \/ CreateChannelBy(sid, {}, BOOLEAN)
    \/ DeleteChannelBy(sid, {}, BOOLEAN)

SpecSession == InitSession /\ [][NextSession]_vars

\* connections arrive, join and leave the rooms of channels, send messages
\* and go away, and the event bus broadcasts the messages
NextRooms ==
  \/ \E sid \in Sids :
       \/ Connect(sid, SingleHandshakes, {}, {FALSE})
       \/ Disconnect(sid, {FALSE})
       \/ CreateChannelBy(sid, {}, {FALSE})
       \/ DeleteChannelBy(sid, {}, {FALSE})
       \/ JoinRoom(sid, BOOLEAN)
       \/ LeaveRoom(sid, BOOLEAN)
       \/ SendMessage(sid, SendToInputs, {}, {FALSE}, {FALSE})
  \/ MessageCreationEvent(BOOLEAN)

SpecRooms == InitSession /\ [][NextRooms]_vars

\* connections arrive and send channel and message commands, a store call or
\* a handler of the bus may fail, and the event bus runs the handler tasks
NextMessages ==
  \/ \E sid \in Sids :
       \/ Connect(sid, SingleHandshakes, {}, {FALSE})
       \/ CreateChannelBy(sid, {"insert"}, BOOLEAN)
       \/ UpdateChannelBy(sid, {"save"}, BOOLEAN)
       \/ DeleteChannelBy(sid, {"save"}, BOOLEAN)
       \/ SendMessage(sid, ChanRefs, {"insert"}, BOOLEAN, BOOLEAN)
       \/ UpdateMessage(sid, {"save"}, BOOLEAN)
       \/ DeleteMessage(sid, {"save"}, BOOLEAN)
       \/ RestoreMessage(sid, {"save"}, BOOLEAN)
  \/ MessageCreationEvent(BOOLEAN)

SpecMessages == InitSession /\ [][NextMessages]_vars

\* connections of two identities send messages and edit, delete and restore
\* the stored ones
NextEdits ==
  \/ \E sid \in Sids :
       \/ Connect(sid, PlainHandshakes, {}, {FALSE})
       \/ SendMessage(sid, SendToInputs, {}, {FALSE}, {FALSE})
       \/ UpdateMessage(sid, {"save"}, BOOLEAN)
       \/ DeleteMessage(sid, {"save"}, BOOLEAN)
       \/ RestoreMessage(sid, {"save"}, BOOLEAN)
  \/ MessageCreationEvent({FALSE})

SpecEdits == InitSession /\ [][NextEdits]_vars

\* ---------------------------------------------------------------- setup
\* model.setup_model.SetupStep
CREATE_SUPER_ADMIN == Lit("create_super_admin")
SET_SERVER_INFO == Lit("set_server_info")
SET_SERVER_SETTINGS == Lit("set_server_settings")

\* SetupProgress(), setup_model.py lines 20-25
NewProgress == [status |-> "not_started", current_step |-> Null, completed_steps |-> <<>>]

\* SetupProgress.start_setup, lines 38-41
start_setup(p) == [p EXCEPT !.status = "in_progress", !.current_step = CREATE_SUPER_ADMIN]

\* SetupProgress.complete_step, lines 43-58
complete_step(p, step) ==
  [p EXCEPT
     !.completed_steps = IF Contains(@, step) THEN @ ELSE Append(@, step),
     !.current_step = IF step = CREATE_SUPER_ADMIN THEN SET_SERVER_INFO
                      ELSE IF step = SET_SERVER_INFO THEN SET_SERVER_SETTINGS
                      ELSE Null,
     !.status = IF step = SET_SERVER_SETTINGS THEN "completed" ELSE @]

\* SetupProgress.get_or_create_setup_progress, lines 98-105: the collection
\* it leaves; the document it returns is the first of it
get_or_create_setup_progress(ps) == IF ps = <<>> THEN <<NewProgress>> ELSE ps

\* SetupProgress.reset_setup_progress, lines 107-120
reset_setup_progress(ps) ==
  IF ps # <<>>
  THEN [ps EXCEPT ![1] = [@ EXCEPT !.status = "not_started", !.current_step = Null,
                                   !.completed_steps = <<>>]]
  ELSE <<NewProgress>>

\* what a setup step hands back: the three collections and its response
SetupResult(ps, as, srv, resp) == [progress |-> ps, admins |-> as, server |-> srv, resp |-> resp]

\* utils.setup_helpers.create_super_admin, lines 7-57. fault names the store
\* call that raises; every exception is caught and answered with success=false.
create_super_admin(ps, as, srv, username, email, fault) ==
  LET admin == [username |-> username, email |-> email]
      ps2 == get_or_create_setup_progress(ps)
      done == [ps2 EXCEPT ![1] = complete_step(start_setup(@), CREATE_SUPER_ADMIN)]
  IN IF \E a \in as : a.username = username
     THEN SetupResult(ps, as, srv, Fail("Admin with this username already exists"))
     ELSE IF \E a \in as : a.email = email
     THEN SetupResult(ps, as, srv, Fail("Admin with this email already exists"))
     ELSE IF fault = "insert" THEN SetupResult(ps, as, srv, Fail("exception"))
     ELSE IF fault = "save_progress" THEN SetupResult(ps2, as \cup {admin}, srv, Fail("exception"))
     ELSE SetupResult(done, as \cup {admin}, srv, Ok)

\* utils.setup_helpers.set_server_info, lines 59-98
set_server_info(ps, as, srv, fault) ==
  LET ps2 == get_or_create_setup_progress(ps)
      done == [ps2 EXCEPT ![1] = complete_step(@, SET_SERVER_INFO)]
  IN IF srv THEN SetupResult(ps, as, srv, Fail("Server already exists"))
     ELSE IF fault = "insert" THEN SetupResult(ps, as, srv, Fail("exception"))
     ELSE IF fault = "save_progress" THEN SetupResult(ps2, as, TRUE, Fail("exception"))
     ELSE SetupResult(done, as, TRUE, Ok)

\* utils.setup_helpers.set_server_settings, lines 100-154
set_server_settings(ps, as, srv, fault) ==
  LET ps2 == get_or_create_setup_progress(ps)
      done == [ps2 EXCEPT ![1] = complete_step(@, SET_SERVER_SETTINGS)]
  IN IF ~srv THEN SetupResult(ps, as, srv, Fail("No active server found"))
     ELSE IF fault = "insert" THEN SetupResult(ps, as, srv, Fail("exception"))
     ELSE IF fault = "save_progress" THEN SetupResult(ps2, as, srv, Fail("exception"))
     ELSE SetupResult(done, as, srv, Ok)

\* api.setup_api.execute_setup_step, lines 117-152: POST /{step}. A body
\* without the required keys and an unknown step are answered with status 400.
execute_setup_step(ps, as, srv, step, body_ok, username, email, fault) ==
  IF step \notin {"1", "2", "3"} THEN SetupResult(ps, as, srv, Fail("Invalid step"))
  ELSE IF ~body_ok THEN SetupResult(ps, as, srv, Fail("required"))
  ELSE IF step = "1" THEN create_super_admin(ps, as, srv, username, email, fault)
  ELSE IF step = "2" THEN set_server_info(ps, as, srv, fault)
  ELSE set_server_settings(ps, as, srv, fault)

\* the usernames and e-mail addresses a client sends
AdminNames == 1..MaxAdmins
AdminEmails == 1..MaxAdmins
SetupFaults == {"none", "insert", "save_progress"}

ExecuteSetupStep ==
  \E step \in {"1", "2", "3", "4"}, body_ok \in BOOLEAN, username \in AdminNames,
     email \in AdminEmails, fault \in SetupFaults :
    LET r == execute_setup_step(progress, admins, server, step, body_ok, username, email, fault)
    IN /\ progress' = r.progress
       /\ admins' = r.admins
       /\ server' = r.server
       /\ last' = [op |-> "execute_setup_step", args |-> [step |-> step], resp |-> r.resp]
       /\ UNCHANGED <<cats, chans, sessions, tasks, pre, users, auths, conns, rooms, pending,
                      joined, messages>>

\* POST /reset, setup_api.py lines 37-50
ResetSetup ==
  /\ progress' = reset_setup_progress(progress)
  /\ last' = [op |-> "reset_setup", args |-> <<>>, resp |-> Ok]
  /\ UNCHANGED <<cats, chans, sessions, tasks, pre, users, auths, conns, rooms, pending,
                 joined, messages, admins, server>>

\* GET /progress, setup_api.py lines 27-35
GetSetupProgress ==
  /\ progress' = get_or_create_setup_progress(progress)
  /\ last' = [op |-> "get_setup_progress", args |-> <<>>, resp |-> Ok]
  /\ UNCHANGED <<cats, chans, sessions, tasks, pre, users, auths, conns, rooms, pending,
                 joined, messages, admins, server>>

\* the setup API called in any order, any number of times
NextSetup ==
  \/ ExecuteSetupStep
  \/ ResetSetup
  \/ GetSetupProgress

SpecSetup == Init /\ [][NextSetup]_vars

\* ---------------------------------------------------------------- chain properties
Live(cs) == {i \in 1..Len(cs) : ~cs[i].is_deleted}

\* no two live categories carry the same non-null next_category_id
NoConvergingPointers(cs) ==
  \A i, j \in Live(cs) :
    (i # j /\ cs[i].next_category_id # Null) => cs[i].next_category_id # cs[j].next_category_id

\* the stored category next_category_id of category i refers to, 0 when none
NextOf(cs, i) ==
  LET parts == extract_elements_from_id_safe(cs[i].next_category_id)
      id == ParseOid(parts[2])
  IN IF parts[1] = Lit("category") /\ id \in 1..Len(cs) THEN id ELSE 0

RECURSIVE Follow(_, _, _)
\* the category k hops after category i, 0 when the walk has ended
Follow(cs, i, k) ==
  IF i = 0 \/ k = 0 THEN i ELSE Follow(cs, NextOf(cs, i), k - 1)

\* following next_category_id from a live category never comes back to it
NoCycle(cs) == \A i \in Live(cs) : \A k \in 1..Len(cs) : Follow(cs, i, k) # i

WellFormed(cs) == NoConvergingPointers(cs) /\ NoCycle(cs)

\* the live categories that point to category t
Preds(cs, t) == {i \in Live(cs) : cs[i].next_category_id = Fmt("category", t)}

\* one chain holds every live category, and every pointer of it ends at a live
\* category or is null
SingleChain(cs) ==
  /\ WellFormed(cs)
  /\ \A i \in Live(cs) : cs[i].next_category_id = Null \/ NextOf(cs, i) \in Live(cs)
  /\ \E h \in Live(cs) : \A i \in Live(cs) : \E k \in 0..Len(cs) : Follow(cs, h, k) = i

SameNexts(cs1, cs2) ==
  /\ Len(cs1) = Len(cs2)
  /\ \A i \in 1..Len(cs1) : cs1[i].next_category_id = cs2[i].next_category_id

\* the observed command is reorder_categories(target, prev)
Reordered(target, prev) ==
  /\ last.op = "reorder_categories"
  /\ last.args.target_category_id = target
  /\ last.args.prev_category_id = prev

\* ---------------------------------------------------------------- claims
\* C1: after any sequence of completed category commands no two distinct
\* non-deleted categories have the same non-null next_category_id.
C1_NoConvergingPointers == NoConvergingPointers(cats)

\* C2: after any sequence of completed category commands no non-deleted
\* category is reachable from itself by following next_category_id.
C2_NoCycle == NoCycle(cats)

\* the prev_category_id is malformed, has the wrong type prefix, names no
\* stored category, names a soft-deleted one, or names the target
BadPrev(cs, target, prev) ==
  LET parts == extract_elements_from_id_safe(prev)
  IN /\ prev # Null
     /\ \/ parts[1] # Lit("category")
        \/ ParseOid(parts[2]) \notin Live(cs)
        \/ prev = target

\* C3: reorder_categories with a prev_category_id that is malformed, of the
\* wrong type, not found, soft-deleted or the target itself returns
\* success=false and leaves every stored next_category_id unchanged.
C3_BadPrevChangesNothing ==
  (/\ last.op = "reorder_categories"
   /\ BadPrev(pre.cats, last.args.target_category_id, last.args.prev_category_id))
  => (/\ last.resp.kind = "return"
      /\ ~last.resp.success
      /\ SameNexts(cats, pre.cats))

\* the observed command moved c to just after a in a chain a -> b -> c
MovedAfter(a, b, c) ==
  /\ Reordered(Fmt("category", c), Fmt("category", a))
  /\ {a, b, c} \subseteq Live(pre.cats)
  /\ pre.cats[a].next_category_id = Fmt("category", b)
  /\ pre.cats[b].next_category_id = Fmt("category", c)
  /\ WellFormed(pre.cats)

\* C4: in a chain A -> B -> C with C.next = X, reorder_categories(target=C,
\* prev=A) ends with A.next = C, C.next = B, B.next = X, no category with two
\* predecessors and no cycle.
C4_MoveAfterRelinks ==
  \A a, c \in 1..Len(pre.cats) :
    Reordered(Fmt("category", c), Fmt("category", a)) =>
      \A b \in 1..Len(pre.cats) :
        MovedAfter(a, b, c) =>
          /\ last.resp.success
          /\ cats[a].next_category_id = Fmt("category", c)
          /\ cats[c].next_category_id = Fmt("category", b)
          /\ cats[b].next_category_id = pre.cats[c].next_category_id
          /\ NoConvergingPointers(cats)
          /\ NoCycle(cats)

\* C4 happens, with a non-null X after C
C4_Witness ==
  \E a, b, c \in 1..Len(pre.cats) :
    /\ MovedAfter(a, b, c)
    /\ pre.cats[c].next_category_id # Null
    /\ last.resp.success

\* the observed command moved t, whose predecessor is p, to the head of a single chain
MovedToHead(t, p) ==
  /\ Reordered(Fmt("category", t), Null)
  /\ {t, p} \subseteq Live(pre.cats)
  /\ pre.cats[p].next_category_id = Fmt("category", t)
  /\ SingleChain(pre.cats)

\* C5: in a single chain, reorder_categories(target, prev=null) on a target
\* with predecessor P ends with no live category pointing to target, P.next
\* equal to target's old next, and every live category pointed to by at most
\* one other category.
C5_MoveToHeadUnlinks ==
  \A t, p \in 1..Len(pre.cats) :
    MovedToHead(t, p) =>
      /\ Preds(cats, t) = {}
      /\ cats[p].next_category_id = pre.cats[t].next_category_id
      /\ \A k \in Live(cats) : Cardinality(Preds(cats, k)) <= 1

\* C6: while one reorder_categories is in progress on a single chain, a
\* reader of the store never sees two live categories with the same non-null
\* next_category_id, nor the target pointing to itself.
C6_ReaderSeesConsistentChain ==
  (/\ tasks[1].op = "reorder_categories"
   /\ tasks[1].pc # "done"
   /\ SingleChain(pre.cats))
  => (/\ NoConvergingPointers(cats)
      /\ tasks[1].target_id # 0 =>
           cats[tasks[1].target_id].next_category_id # Fmt("category", tasks[1].target_id))

\* ---------------------------------------------------------------- membership properties
\* how often x occurs in xs
Count(xs, x) == Cardinality({k \in 1..Len(xs) : xs[k] = x})

LiveChans(chs) == {j \in 1..Len(chs) : ~chs[j].is_deleted}

ChanRef(j) == Fmt("channel", ChanOid(j))
CatRef(i) == Fmt("category", i)

\* C7: after every completed command a channel id appears in the
\* channels_order of at most one non-deleted category, and it appears in
\* category K's channels_order if and only if the channel's category_id is K.
C7_OrderMatchesBackreference ==
  \A j \in 1..Len(chans) :
    /\ Cardinality({k \in Live(cats) : Contains(cats[k].channels_order, ChanRef(j))}) <= 1
    /\ \A k \in Live(cats) :
         Contains(cats[k].channels_order, ChanRef(j)) <=> chans[j].category_id = CatRef(k)

\* C8: for every (live) category and channel, after add_channel_to_category(cat, ch)
\* was issued twice in a row, ch occurs exactly once in cat.channels_order.
C8_AddTwiceListsOnce ==
  \A k \in Live(pre.cats), j \in LiveChans(pre.chans) :
    (/\ last.op = "add_channel_to_category twice"
     /\ last.args.category_id = CatRef(k)
     /\ last.args.channel_id = ChanRef(j))
    => Count(cats[k].channels_order, ChanRef(j)) = 1

\* the observed command moved channel j, which was in live category x, to live category y
MovedChannel(x, y, j) ==
  /\ last.op = "add_channel_to_category"
  /\ last.args.category_id = CatRef(y)
  /\ last.args.channel_id = ChanRef(j)
  /\ x # y
  /\ {x, y} \subseteq Live(pre.cats)
  /\ j \in LiveChans(pre.chans)
  /\ pre.chans[j].category_id = CatRef(x)

\* C9: for a channel in category X, add_channel_to_category(Y, ch) with Y # X
\* removes ch from X.channels_order, appends it to Y.channels_order and sets
\* ch.category_id to Y; X's and Y's arrays together contain ch exactly once.
C9_MoveChannel ==
  \A x, y \in 1..Len(pre.cats), j \in 1..Len(pre.chans) :
    MovedChannel(x, y, j) =>
      /\ last.resp.success
      /\ ~Contains(cats[x].channels_order, ChanRef(j))
      /\ cats[y].channels_order = Append(pre.cats[y].channels_order, ChanRef(j))
      /\ chans[j].category_id = CatRef(y)
      /\ Count(cats[x].channels_order, ChanRef(j)) + Count(cats[y].channels_order, ChanRef(j)) = 1

\* C9 happens: the channel was listed by X, and X lists another channel too
C9_Witness ==
  \E x, y \in 1..Len(pre.cats), j \in 1..Len(pre.chans) :
    /\ MovedChannel(x, y, j)
    /\ Contains(pre.cats[x].channels_order, ChanRef(j))
    /\ Len(pre.cats[x].channels_order) > 1
    /\ last.resp.success

\* id is the id of a live channel whose category is category_id
IsMember(db, category_id, id) ==
  \E j \in LiveChans(db.chans) : id = ChanRef(j) /\ db.chans[j].category_id = category_id

\* the list repeats an id, or lists an id that is not a live member of the category
BadOrder(db, category_id, ids) ==
  \/ Distinct(ids) # Len(ids)
  \/ \E k \in 1..Len(ids) : ~IsMember(db, category_id, ids[k])

\* C10: reorder_category_channels whose list has a duplicate id or an id of a
\* channel that is not a live member of the category returns success=false and
\* leaves the stored channels_order unchanged.
C10_BadOrderRejected ==
  (/\ last.op = "reorder_category_channels"
   /\ BadOrder(pre, last.args.category_id, last.args.ordered_channel_ids))
  => (/\ last.resp.kind = "return"
      /\ ~last.resp.success
      /\ cats = pre.cats)

\* C10 happens: a live category with a stored order is sent a list that
\* repeats one of its members
C10_Witness ==
  \E k \in Live(pre.cats) :
    /\ last.op = "reorder_category_channels"
    /\ last.args.category_id = CatRef(k)
    /\ pre.cats[k].channels_order # <<>>
    /\ Distinct(last.args.ordered_channel_ids) # Len(last.args.ordered_channel_ids)
    /\ \A n \in 1..Len(last.args.ordered_channel_ids) :
         IsMember(pre, CatRef(k), last.args.ordered_channel_ids[n])
    /\ ~last.resp.success

\* the observed command is delete_category of the stored, non-deleted category c
DeletedCategory(c) ==
  /\ last.op = "delete_category"
  /\ last.args.id = Str(c)
  /\ c \in Live(pre.cats)

BadCategoryRef(cs, ref) ==
  LET parts == extract_elements_from_id_safe(ref)
      id == ParseOid(parts[2])
  IN parts[1] # Lit("category") \/ (id >= 0 /\ id \notin Live(cs))

\* ref has the wrong type prefix, names no stored channel, or names a soft-deleted one
BadChannelRef(chs, ref) ==
  LET parts == extract_elements_from_id_safe(ref)
      id == ParseOid(parts[2])
  IN parts[1] # Lit("channel") \/ (id >= 0 /\ id \notin {ChanOid(j) : j \in LiveChans(chs)})

\* C12: add_channel_to_category with a category id or channel id that has the
\* wrong type prefix, is not found or is soft-deleted returns success=false
\* and changes no category's channels_order and no channel's category_id.
C12_BadRefChangesNothing ==
  (/\ last.op = "add_channel_to_category"
   /\ \/ BadCategoryRef(pre.cats, last.args.category_id)
      \/ BadChannelRef(pre.chans, last.args.channel_id))
  => (/\ last.resp.kind = "return"
      /\ ~last.resp.success
      /\ \A k \in 1..Len(cats) : cats[k].channels_order = pre.cats[k].channels_order
      /\ \A j \in 1..Len(chans) : chans[j].category_id = pre.chans[j].category_id)

\* C12 happens: a soft-deleted channel that another live category lists is
\* sent to a live category, and is refused
C12_Witness ==
  \E k, x \in Live(pre.cats), j \in 1..Len(pre.chans) :
    /\ last.op = "add_channel_to_category"
    /\ last.args.category_id = CatRef(k)
    /\ last.args.channel_id = ChanRef(j)
    /\ pre.chans[j].is_deleted
    /\ x # k
    /\ pre.chans[j].category_id = CatRef(x)
    /\ Contains(pre.cats[x].channels_order, ChanRef(j))
    /\ ~last.resp.success

\* ---------------------------------------------------------------- session properties
\* the token connect reads from the handshake of the observed connect
Presented == IF last.args.h.auth # Null THEN last.args.h.auth ELSE last.args.h.query

\* the connections the observed command emitted event to
Receivers(event) == {e.to : e \in {x \in last.emits : x.event = event}}

\* C13: whenever connect refuses a connection, no session is stored for that
\* connection id and no identity's is_online or last_seen differs from
\* before the attempt.
C13_RefusedLeavesNoTrace ==
  (last.op = "connect" /\ ~last.resp.success)
  => (/\ last.args.sid \notin DOMAIN sessions
      /\ \A u \in 1..Len(users) :
           /\ users[u].is_online = pre.users[u].is_online
           /\ users[u].last_seen = pre.users[u].last_seen)

\* the token's auth_id is the id of a credential whose user_id is the token's user_id
CredentialMatches(as, token) ==
  \E a \in 1..Len(as) : Str(a) = token.auth_id /\ Str(as[a].user_id) = token.user_id

\* C14: connect is refused whenever the token's auth_id does not identify a
\* credential whose user_id equals the token's user_id.
C14_MismatchRefused ==
  (/\ last.op = "connect"
   /\ Presented # Null
   /\ Presented.valid
   /\ ~CredentialMatches(auths, Presented))
  => ~last.resp.success

\* C15: after an accepted connect a session keyed by the connection id exists
\* with authenticated = true, the token's identity is online, and
\* auth_success was emitted to that connection and to no other.
C15_AcceptedIsOnline ==
  (last.op = "connect" /\ last.resp.success)
  => (/\ last.args.sid \in DOMAIN sessions
      /\ sessions[last.args.sid].authenticated
      /\ \E u \in 1..Len(users) :
           /\ Str(users[u].auth_id) = Presented.user_id
           /\ Str(u) = sessions[last.args.sid].user_id
           /\ users[u].is_online
      /\ Receivers("auth_success") = {last.args.sid}
      /\ last.emits = {[event |-> "auth_success", to |-> last.args.sid]})

\* C15 happens while another connection is open
C15_Witness ==
  /\ last.op = "connect"
  /\ last.resp.success
  /\ \E s \in Sids : s # last.args.sid /\ pre.conns[s] = "open"

\* C16: after disconnect no session exists for the connection id, whether or
\* not the presence update succeeded; if the session was authenticated and
\* the update succeeded the identity is offline; if there was no
\* authenticated session no identity is modified.
C16_DisconnectClearsSession ==
  last.op = "disconnect"
  => (/\ last.args.sid \notin DOMAIN sessions
      /\ (Authenticated(pre.sessions, last.args.sid) /\ last.args.fault = "none")
           => ~users[ParseOid(pre.sessions[last.args.sid].user_id)].is_online
      /\ ~Authenticated(pre.sessions, last.args.sid) => users = pre.users)

\* C16 happens: an online identity's connection goes away and the update succeeds
C16_Witness ==
  /\ last.op = "disconnect"
  /\ last.args.fault = "none"
  /\ Authenticated(pre.sessions, last.args.sid)
  /\ pre.users[ParseOid(pre.sessions[last.args.sid].user_id)].is_online
  /\ last.args.sid \notin DOMAIN sessions

\* the commands a connection sends
CommandOps ==
  {"join_room", "leave_room", "send_message", "create_category", "create_channel",
   "delete_channel"}

\* C17: a command of a connection that has no session, or whose session is
\* not authenticated, is rejected with "Authentication required" and changes
\* neither the store nor any room's membership.
C17_CommandsNeedSession ==
  (last.op \in CommandOps /\ ~Authenticated(pre.sessions, last.args.sid))
  => (/\ ~last.resp.success
      /\ last.resp.error = "Authentication required"
      /\ cats = pre.cats
      /\ chans = pre.chans
      /\ pending = pre.pending
      /\ rooms = pre.rooms)

\* room_id is a well-formed id that names no stored channel or a soft-deleted one
NoLiveChannel(chs, room_id) ==
  LET id == ParseOid(room_id)
  IN id >= 0 /\ id \notin {ChanOid(j) : j \in LiveChans(chs)}

\* C18: join_room for a room whose channel does not exist or is soft-deleted
\* fails with success=false and leaves the room memberships unchanged.
C18_JoinNeedsLiveChannel ==
  (last.op = "join_room" /\ NoLiveChannel(pre.chans, last.args.room_id))
  => (/\ last.resp.kind = "return"
      /\ ~last.resp.success
      /\ rooms = pre.rooms)

\* C19: a "message" event published for room R is delivered to exactly the
\* connections that are members of R when it is broadcast: to every
\* connection in R, and to no connection that never joined R.
C19_BroadcastReachesMembers ==
  last.op = "message_creation_event"
  => (/\ Receivers("message") = {s \in Sids : <<last.args.sent_to, s>> \in pre.rooms}
      /\ \A s \in Receivers("message") : <<last.args.sent_to, s>> \in joined
      /\ \A e \in last.emits : e.event = "message")

\* C19 happens: one open connection is in the room and receives the message,
\* another open connection is not
C19_Witness ==
  /\ last.op = "message_creation_event"
  /\ Receivers("message") # {}
  /\ \E s \in Sids : pre.conns[s] = "open" /\ s \notin Receivers("message")

C21_JoinLeaveIdempotent ==
  /\ last.op = "join_room"
       => (<<RoomName(Lit("channel"), last.args.room_id), last.args.sid>> \in pre.rooms
             => rooms = pre.rooms)
  /\ last.op = "leave_room"
       => (<<RoomName(Lit("channel"), last.args.room_id), last.args.sid>> \notin pre.rooms
             => rooms = pre.rooms)

\* a connection joined, with success, a room that it and another connection
\* were already in
C21_Witness ==
  /\ last.op = "join_room"
  /\ last.resp.success
  /\ <<RoomName(Lit("channel"), last.args.room_id), last.args.sid>> \in pre.rooms
  /\ \E s \in Sids \ {last.args.sid} :
       <<RoomName(Lit("channel"), last.args.room_id), s>> \in pre.rooms

\* a connection left, with success, a room it was not in while another
\* connection was
C21_LeaveWitness ==
  /\ last.op = "leave_room"
  /\ last.resp.success
  /\ <<RoomName(Lit("channel"), last.args.room_id), last.args.sid>> \notin pre.rooms
  /\ pre.rooms # {}

\* ---------------------------------------------------------------- event properties
\* the commands that publish on the bus
PublisherOps ==
  {"send_message", "update_message", "delete_message", "restore_message",
   "create_channel", "update_channel", "delete_channel"}

C22_HandlerWitness == last.op = "message_creation_event" /\ last.args.raises

\* C23: a command publishes its event only after its store write has
\* succeeded: a command that published an event has answered success=true.
C23_EventAfterMutation ==
  (last.op \in PublisherOps /\ last.published # <<>>) => last.resp.success

\* the topics no handler is registered for
UnhandledTopics ==
  {"message_update", "message_delete", "message_restore", "channel_created",
   "channel_updated", "channel_deleted"}

\* C24: a command that publishes on a topic with no registered handler, and
\* whose store calls succeed, starts no handler task, sends no frame to a
\* room (its own "system" frame to the caller apart) and answers success=true.
C24_NoHandlerNoFrame ==
  (/\ last.op \in PublisherOps
   /\ last.published # <<>>
   /\ last.published[1].topic \in UnhandledTopics
   /\ last.args.fault = "none")
  => (/\ pending = pre.pending
      /\ last.emits \subseteq System(last.args.sid)
      /\ last.resp.success)

\* C24 happens: an update_message published "message_update" while a
\* "message_creation" task was waiting on the bus
C24_Witness ==
  /\ last.op = "update_message"
  /\ last.published # <<>>
  /\ last.published[1].topic = "message_update"
  /\ pre.pending # <<>>

\* C27: send_message addressed to a channel that does not exist or is
\* soft-deleted is rejected: success=false, no message stored, no handler
\* task for a "message" broadcast.
C27_SendNeedsLiveChannel ==
  (/\ last.op = "send_message"
   /\ Authenticated(pre.sessions, last.args.sid)
   /\ extract_elements_from_id_safe(last.args.send_to)[1] = Lit("channel")
   /\ NoLiveChannel(pre.chans, extract_elements_from_id_safe(last.args.send_to)[2]))
  => (/\ ~last.resp.success
      /\ messages = pre.messages
      /\ pending = pre.pending)

\* C28: the sent_to and sent_by of a stored message never change: every step
\* leaves them as they are, update_message, delete_message and
\* restore_message included.
C28_SenderAndTargetFixed ==
  [][\A k \in 1..Len(messages) :
       /\ k <= Len(messages')
       /\ messages'[k].sent_to = messages[k].sent_to
       /\ messages'[k].sent_by = messages[k].sent_by]_vars

\* the message an observed message command named
Named == MessageGet(pre.messages, extract_elements_from_id_safe(last.args.id)[2])

\* C28 happens: a message was edited by an identity that is not its sender
C28_Witness ==
  /\ last.op = "update_message"
  /\ last.resp.success
  /\ Named.st = "ok"
  /\ Named.doc.sent_by # <<"user", ":">> \o pre.sessions[last.args.sid].user_id
  /\ messages[Named.id].content # Named.doc.content

\* a deleted message was restored
C28_RestoreWitness == last.op = "restore_message" /\ last.resp.success

\* the token of a handshake by the order header, auth payload, query string
Chosen(h) == IF h.header # Null THEN h.header ELSE IF h.auth # Null THEN h.auth ELSE h.query

\* C25: the handshake uses the token of the first source that carries one,
\* in the order header, auth payload, query string: it is accepted exactly
\* when a handshake that carries that token alone is accepted.
C25_TokenPrecedence ==
  (last.op = "connect" /\ last.args.fault = "none")
  => last.resp.success
       = connect(pre.sessions, pre.users, auths, last.args.sid,
                 [auth |-> Chosen(last.args.h), query |-> Null, header |-> Null],
                 "none").accepted

\* the auth payload goes before the query string
C25_AuthBeforeQuery ==
  (last.op = "connect" /\ last.args.fault = "none" /\ last.args.h.header = Null)
  => last.resp.success
       = connect(pre.sessions, pre.users, auths, last.args.sid,
                 [auth |-> Chosen(last.args.h), query |-> Null, header |-> Null],
                 "none").accepted

\* a handshake with a bad token in the auth payload and a good one in the
\* query string was refused
C25_AuthBeforeQueryWitness ==
  /\ last.op = "connect"
  /\ last.args.h.auth = NoToken
  /\ last.args.h.query = Token(Str(1), Str(1))
  /\ ~last.resp.success

\* C26: no command ends with an unhandled exception: whatever fails, the
\* handler returns a response.
C26_NoUnhandledException == last.op # "none" => last.resp.kind # "raise"

\* C29: create_category and update_category reject a next_category_id that
\* has the wrong type prefix, names no stored category, names a soft-deleted
\* one, or names the category itself, and store nothing.
C29_BadNextRejected ==
  (/\ last.op \in {"create_category", "update_category"}
   /\ last.args.next_category_id # Null
   /\ \/ BadCategoryRef(pre.cats, last.args.next_category_id)
      \/ last.op = "update_category" /\ last.args.next_category_id = last.args.id)
  => (/\ ~last.resp.success
      /\ cats = pre.cats)

\* the observed reorder_categories names a live target and, as prev, another
\* live category whose next_category_id already is the target
SamePosition(t, p) ==
  /\ Reordered(Fmt("category", t), Fmt("category", p))
  /\ t \in Live(pre.cats)
  /\ p \in Preds(pre.cats, t)
  /\ p # t

\* C30: reorder_categories(target, prev) with prev already the predecessor
\* of the target succeeds and leaves every category's next_category_id as it
\* was.
C30_SamePositionNoOp ==
  \A t \in 1..Len(pre.cats), p \in 1..Len(pre.cats) :
    SamePosition(t, p) => (last.resp.success /\ SameNexts(pre.cats, cats))

\* the same, for a target that has no other predecessor
C30_SinglePredecessorNoOp ==
  \A t \in 1..Len(pre.cats), p \in 1..Len(pre.cats) :
    (SamePosition(t, p) /\ Preds(pre.cats, t) = {p})
    => (last.resp.success /\ SameNexts(pre.cats, cats))

\* the target sits in the middle of a chain, between its predecessor and
\* its successor, and is moved to where it is
C30_ChainWitness ==
  \E t \in 1..Len(pre.cats), p \in 1..Len(pre.cats) :
    /\ SamePosition(t, p)
    /\ WellFormed(pre.cats)
    /\ pre.cats[t].next_category_id # Null
    /\ last.resp.success

\* ---------------------------------------------------------------- concurrent commands
\* both handler slots hold a finished handler of command op
BothDone(op) == \A t \in Tasks : tasks[t].op = op /\ tasks[t].pc = "done"

\* C31: once two reorder_categories commands issued on one well-formed chain
\* have both completed, in whatever order their store accesses interleaved,
\* no two live categories share a next_category_id and no category reaches
\* itself by following next pointers.
C31_RaceKeepsChain ==
  (BothDone("reorder_categories") /\ SingleChain(pre.cats)) => WellFormed(cats)

\* the same for two successful commands that each name a predecessor, the
\* case a single command gets right
C31_MoveAfterRace ==
  (/\ BothDone("reorder_categories")
   /\ SingleChain(pre.cats)
   /\ \A t \in Tasks : tasks[t].prev_category_id # Null /\ tasks[t].resp.success)
  => WellFormed(cats)

\* the finished add_channel_to_category of slot t added channel j to category c
Added(t, c, j) ==
  /\ tasks[t].resp.success
  /\ tasks[t].cat_id = c
  /\ tasks[t].chan_id = j

\* C32: two add_channel_to_category commands that add two distinct channels
\* to the same category and both return success leave both channels in that
\* category's channels_order, in whatever order their store accesses
\* interleaved.
C32_NoLostAdd ==
  BothDone("add_channel_to_category") =>
    \A c \in 1..Len(cats), j1, j2 \in 1..Len(chans) :
      (j1 # j2 /\ Added(1, c, j1) /\ Added(2, c, j2))
      => (Contains(cats[c].channels_order, ChanRef(j1)) /\ Contains(cats[c].channels_order, ChanRef(j2)))

\* the categories whose channels_order lists channel j
ListedIn(cs, j) == {c \in 1..Len(cs) : Contains(cs[c].channels_order, ChanRef(j))}

\* channel j is listed by the category it refers to and by no other
MemberOfOwnCategory(cs, chs, j) ==
  \/ chs[j].category_id = Null /\ ListedIn(cs, j) = {}
  \/ \E c \in 1..Len(cs) : chs[j].category_id = CatRef(c) /\ ListedIn(cs, j) = {c}

\* C33: two add_channel_to_category commands that move the same channel to
\* two different categories leave it, once both have completed, in exactly
\* one category's channels_order, and that category is the channel's
\* category_id.
C33_RaceKeepsOneCategory ==
  BothDone("add_channel_to_category") =>
    \A c1, c2 \in 1..Len(cats), j \in 1..Len(chans) :
      (/\ c1 # c2
       /\ Added(1, c1, j)
       /\ Added(2, c2, j)
       /\ MemberOfOwnCategory(pre.cats, pre.chans, j))
      => \E c \in {c1, c2} : ListedIn(cats, j) = {c} /\ chans[j].category_id = CatRef(c)

\* ---------------------------------------------------------------- chain invariants
\* the live categories no live category points to
Heads(cs) == {i \in Live(cs) : Preds(cs, i) = {}}

\* exactly one live category has no predecessor and every live category is
\* reached from it by following next pointers
OneTotalChain(cs) ==
  /\ Cardinality(Heads(cs)) = 1
  /\ \A h \in Heads(cs) : \A i \in Live(cs) : \E k \in 0..Len(cs) : Follow(cs, h, k) = i

\* C34: starting from a single chain of all live categories, after any
\* sequence of successful reorder_categories commands run one after another
\* exactly one live category has no predecessor and every live category is
\* reachable from it.
C34_StaysOneChain ==
  (last.op = "reorder_categories" /\ last.resp.success) => OneTotalChain(cats)

\* C35: after delete_category of a category of a single chain, no live
\* category's next_category_id names a soft-deleted category.
C35_DeleteUnlinks ==
  \A c \in 1..Len(pre.cats) :
    (DeletedCategory(c) /\ SingleChain(pre.cats)) =>
      \A i \in Live(cats), d \in 1..Len(cats) :
        cats[i].next_category_id = CatRef(d) => ~cats[d].is_deleted

\* ---------------------------------------------------------------- membership invariants
Elems(xs) == {xs[k] : k \in 1..Len(xs)}

\* ys is xs in some order
Permutation(xs, ys) == Len(xs) = Len(ys) /\ \A x \in Elems(xs) \cup Elems(ys) : Count(xs, x) = Count(ys, x)

\* the channels_order of category k lists, once each, the live channels whose
\* category_id is k
OrderIsMembers(db, k) ==
  /\ Distinct(db.cats[k].channels_order) = Len(db.cats[k].channels_order)
  /\ Elems(db.cats[k].channels_order)
       = {ChanRef(j) : j \in {n \in LiveChans(db.chans) : db.chans[n].category_id = CatRef(k)}}

\* C36: a successful reorder_category_channels stores a permutation of the
\* category's old channels_order: no member channel is dropped from the array.
C36_ReorderKeepsMembers ==
  \A k \in Live(pre.cats) :
    (/\ last.op = "reorder_category_channels"
     /\ last.args.category_id = CatRef(k)
     /\ last.resp.success
     /\ OrderIsMembers(pre, k))
    => Permutation(pre.cats[k].channels_order, cats[k].channels_order)

\* ---------------------------------------------------------------- presence
\* C37: in every reachable state of connects and disconnects, one identity
\* holding several connections included, an identity is online whenever a
\* live authenticated session of it exists.
C37_OnlineWhileConnected ==
  \A sid \in DOMAIN sessions :
    (conns[sid] = "open" /\ sessions[sid].authenticated)
    => users[ParseOid(sessions[sid].user_id)].is_online

\* the channels_order of every live category lists live channels only
OrdersListLiveChannels(cs, chs) ==
  \A k \in Live(cs), j \in 1..Len(chs) :
    Contains(cs[k].channels_order, ChanRef(j)) => ~chs[j].is_deleted

\* C38: the channels_order of every live category lists only live channels:
\* after a successful delete_channel, issued in a store of which that is
\* true, the deleted channel appears in no category's channels_order.
C38_DeletedChannelUnlisted ==
  (/\ last.op = "delete_channel"
   /\ last.resp.success
   /\ OrdersListLiveChannels(pre.cats, pre.chans))
  => OrdersListLiveChannels(cats, chans)

\* ---------------------------------------------------------------- message soft delete
\* the observed command names the stored message k
NamesMessage(op, k) ==
  /\ last.op = op
  /\ Named.st = "ok"
  /\ Named.id = k
  /\ extract_elements_from_id_safe(last.args.id)[1] = Lit("message")

\* the observed command was refused and changed and published nothing
Rejected ==
  /\ ~last.resp.success
  /\ messages = pre.messages
  /\ last.published = <<>>

\* C39: message soft delete is a two-state machine. delete_message of a
\* deleted message and restore_message of a message that is not deleted are
\* rejected with no mutation and no event; is_deleted is true exactly when
\* deleted_at is set; a delete sets both and a restore clears both, each
\* leaving the content as it was.
C39_SoftDeleteTwoStates ==
  /\ \A k \in 1..Len(messages) : messages[k].is_deleted <=> messages[k].deleted_at # Null
  /\ last.op \in {"delete_message", "restore_message"} =>
     \A k \in 1..Len(pre.messages) :
       /\ (NamesMessage("delete_message", k) /\ pre.messages[k].is_deleted) => Rejected
       /\ (NamesMessage("restore_message", k) /\ ~pre.messages[k].is_deleted) => Rejected
       /\ (NamesMessage("delete_message", k) /\ last.resp.success)
            => (/\ messages[k].is_deleted
                /\ messages[k].content = pre.messages[k].content)
       /\ (NamesMessage("restore_message", k) /\ last.resp.success)
            => (/\ pre.messages[k].is_deleted
                /\ ~messages[k].is_deleted
                /\ messages[k].deleted_at = Null
                /\ messages[k].content = pre.messages[k].content)

\* C39 happens: a deleted message, time stamp set, is restored
C39_Witness ==
  /\ last.op = "restore_message"
  /\ \E k \in 1..Len(pre.messages) :
    /\ NamesMessage("restore_message", k)
    /\ pre.messages[k].is_deleted
    /\ pre.messages[k].deleted_at # Null
    /\ last.resp.success

\* a second delete_message of a deleted message is refused
C39_RejectWitness ==
  /\ last.op = "delete_message"
  /\ \E k \in 1..Len(pre.messages) :
    /\ NamesMessage("delete_message", k)
    /\ pre.messages[k].is_deleted
    /\ ~last.resp.success

\* ---------------------------------------------------------------- setup progress
\* no step is listed twice in completed_steps
NoStepTwice(p) == Distinct(p.completed_steps) = Len(p.completed_steps)

\* C40: for every sequence of setup steps and resets, the status is
\* "completed" only if create_super_admin, set_server_info and
\* set_server_settings are all in completed_steps, and completed_steps never
\* holds a step twice.
C40_CompletedMeansAllSteps ==
  \A k \in 1..Len(progress) :
    /\ progress[k].status = "completed"
         => \A step \in {CREATE_SUPER_ADMIN, SET_SERVER_INFO, SET_SERVER_SETTINGS} :
              Contains(progress[k].completed_steps, step)
    /\ NoStepTwice(progress[k])

\* the second half alone
C40_NoStepTwice == \A k \in 1..Len(progress) : NoStepTwice(progress[k])

====
